---- MODULE Spec2Model ----
(***************************************************************************)
(* Resilience layer of http-service: circuit breaker, retry, rate limiter  *)
(* and bulkhead, modelled from src/http_service.                           *)
(*                                                                         *)
(* Time is an integer number of ticks.  Callers are sync threads (each     *)
(* uses CircuitBreaker.call) and async tasks that all run on the one       *)
(* event-loop thread (each uses CircuitBreaker.acall).                     *)
(***************************************************************************)
EXTENDS Integers, Sequences, FiniteSets, TLC

\* ---------------------------------------------------------------- bounds
MaxFailureThreshold == 2
MaxSuccessThreshold == 2
MaxRecoveryTimeout == 1
MaxCalls == 3
Horizon == 2
MaxInterval == 2
MaxBurst == 2
MaxConcurrent == 2
MaxRetries == 2
MaxRetryDelay == 2
MaxBackoffFactor == 2
MaxDelayCap == 3

\* time.time() is seconds since 1970: far above any recovery_timeout, while
\* last_failure_time starts at 0.
StartTime == MaxRecoveryTimeout + MaxInterval + 1
EndTime == StartTime + Horizon

VARIABLES
    config,       \* CircuitBreakerConfig: enabled, failure_threshold, recovery_timeout, success_threshold
    breaker,      \* CircuitBreaker fields
    lock_owner,   \* thread owning CircuitBreaker._lock (an RLock)
    lock_count,   \* recursion level of the RLock
    now,          \* time.time()
    pc,           \* position of each caller: "idle", "in_op" (operation invoked, not finished), "done"
    op_calls,     \* number of invocations of the protected operation
    last,         \* what the most recently finished call gave its caller
    deadline,     \* per caller: when its bounded wait or its sleep ends
    bh_config,    \* BulkheadConfig: enabled, max_concurrent, acquire_timeout
    permits,      \* value of the bulkhead's semaphore
    holds,        \* callers holding a bulkhead permit
    waiters,      \* asyncio.Semaphore._waiters: the tasks queued in acquire(), oldest first
    stop,         \* per caller of a bulkhead: what is ending its acquisition or its body ("no": nothing)
    rl_config,    \* rate_limit arguments: min_interval (1 / requests_per_second), burst_size
    last_request_time,  \* rate_limit closure variable
    request_count,      \* rate_limit closure variable (the burst counter)
    op_starts,    \* times at which an active rate limiter let the operation start
    rl_local,     \* per thread inside rate_limit: its time_since_last_request, the request_count it loaded
    simple,       \* http_service.decorators.rate_limit run beside it: its closure variable, its sleep, its starts
    component,    \* which component the callers of this run go through
    client,       \* HttpClient settings: max_retries, circuit_breaker_enabled,
                  \* retry_on_status_codes
    req,          \* per caller: the logical request HttpClient is working on for it
    rt_config,    \* arguments of a retry decorator
    rt,           \* one call of the retry wrapper: its locals and what it has done
    bk            \* one computation of a backoff delay: its arguments and its result

breaker_vars == <<config, breaker, lock_owner, lock_count>>
bulkhead_vars == <<bh_config, permits, holds, waiters, stop>>
limiter_vars == <<rl_config, last_request_time, request_count, op_starts, rl_local, simple>>
client_vars == <<client, req>>
retry_vars == <<rt_config, rt, bk>>
caller_vars == <<now, pc, op_calls, last, deadline, component>>
vars == <<breaker_vars, bulkhead_vars, limiter_vars, client_vars, retry_vars, caller_vars>>
\* what no operation of the circuit breaker touches
outside_breaker == <<deadline, component, bulkhead_vars, limiter_vars, client_vars, retry_vars>>

\* ------------------------------------------------------------ vocabulary
CLOSED == "closed"
OPEN == "open"
HALF_OPEN == "half_open"
CircuitBreakerState == {CLOSED, OPEN, HALF_OPEN}

CircuitBreakerOpenError == "CircuitBreakerOpenError"
\* errors the protected operation itself raises
OpErrors == {"ValueError", "TimeoutError"}
NoError == "none"

\* optional values: None, or a value v as <<v>>
None == <<>>
Some(v) == <<v>>

BulkheadRejectedError == "BulkheadRejectedError"
\* asyncio.CancelledError, raised in a task at the await where it is cancelled
CancelledError == "CancelledError"
KeyboardInterrupt == "KeyboardInterrupt"

\* n callers of one kind: "thread" (its own OS thread) or "task"
Pool(kind, n) == {<<kind, i>> : i \in 1..n}
\* one worker thread and two tasks share the breaker
Threads == Pool("thread", 1)
Tasks == Pool("task", 2)
\* the threads that race through one rate_limit wrapper
LimiterThreads == Pool("thread", 2)
\* the threads of a Bulkhead run, the tasks of an AsyncBulkhead run
BulkheadPool == Pool("thread", MaxConcurrent + 1) \cup Pool("task", MaxConcurrent + 1)
LoopThread == <<"loop", 0>>
NoOwner == <<"none", 0>>
\* the OS thread a caller runs on: every task runs on the event-loop thread
ThreadOf(c) == IF c[1] = "task" THEN LoopThread ELSE c

Callers == DOMAIN pc

\* ------------------------------------------------- CircuitBreaker (pure)
NewBreaker ==
    [state |-> CLOSED, failure_count |-> 0, success_count |-> 0,
     last_failure_time |-> 0, last_success_time |-> 0,
     total_requests |-> 0, total_failures |-> 0,
     total_successes |-> 0, total_rejected |-> 0]

\* variant: the window is still closed at exactly recovery_timeout
should_attempt_reset_late(b, cfg, t) ==
    t - b.last_failure_time > cfg.recovery_timeout

should_attempt_reset(b, cfg, t) ==
    t - b.last_failure_time >= cfg.recovery_timeout

\* variant: half-opening keeps the successes of the previous probing phase
set_half_open_keeps_successes(b) == [b EXCEPT !.state = HALF_OPEN]

set_half_open(b) == [b EXCEPT !.state = HALF_OPEN, !.success_count = 0]

\* variant: closing keeps the failures counted so far
set_closed_keeps_failures(b) == [b EXCEPT !.state = CLOSED, !.success_count = 0]

set_closed(b) == [b EXCEPT !.state = CLOSED, !.failure_count = 0, !.success_count = 0]

set_open(b) == [b EXCEPT !.state = OPEN]

\* variant: one success more than success_threshold is needed to close
on_success_late(b, cfg, t) ==
    LET b1 == [b EXCEPT !.last_success_time = t,
                        !.total_successes = @ + 1]
    IN  IF b1.state = HALF_OPEN
        THEN LET b2 == [b1 EXCEPT !.success_count = @ + 1]
             IN  IF b2.success_count > cfg.success_threshold
                 THEN set_closed(b2)
                 ELSE b2
        ELSE [b1 EXCEPT !.failure_count = 0]

on_success(b, cfg, t) ==
    LET b1 == [b EXCEPT !.last_success_time = t,
                        !.total_successes = @ + 1]
    IN  IF b1.state = HALF_OPEN
        THEN LET b2 == [b1 EXCEPT !.success_count = @ + 1]
             IN  IF b2.success_count >= cfg.success_threshold
                 THEN set_closed(b2)
                 ELSE b2
        ELSE [b1 EXCEPT !.failure_count = 0]

\* variant: the breaker opens one failure after the threshold
on_failure_late(b, cfg, t) ==
    LET b1 == [b EXCEPT !.last_failure_time = t,
                        !.total_failures = @ + 1,
                        !.failure_count = @ + 1]
    IN  IF b1.state = HALF_OPEN
        THEN set_open(b1)
        ELSE IF b1.state = CLOSED /\ b1.failure_count > cfg.failure_threshold
             THEN set_open(b1)
             ELSE b1

\* variant: a failed probe reopens only once the threshold is reached
on_failure_probe_threshold(b, cfg, t) ==
    LET b1 == [b EXCEPT !.last_failure_time = t,
                        !.total_failures = @ + 1,
                        !.failure_count = @ + 1]
    IN  IF b1.state \in {CLOSED, HALF_OPEN}
           /\ b1.failure_count >= cfg.failure_threshold
        THEN set_open(b1)
        ELSE b1

on_failure(b, cfg, t) ==
    LET b1 == [b EXCEPT !.last_failure_time = t,
                        !.total_failures = @ + 1,
                        !.failure_count = @ + 1]
    IN  IF b1.state = HALF_OPEN
        THEN set_open(b1)
        ELSE IF b1.state = CLOSED /\ b1.failure_count >= cfg.failure_threshold
             THEN set_open(b1)
             ELSE b1

\* call/acall up to the invocation: total_requests += 1, then either the
\* rejection (OPEN inside the recovery window) or the admission (OPEN past
\* the window becomes HALF_OPEN)
rejects(b, cfg, t) == b.state = OPEN /\ ~should_attempt_reset(b, cfg, t)

after_rejection(b) ==
    [b EXCEPT !.total_requests = @ + 1, !.total_rejected = @ + 1]

after_admission(b) ==
    LET b1 == [b EXCEPT !.total_requests = @ + 1]
    IN  IF b1.state = OPEN THEN set_half_open(b1) ELSE b1

is_open(b) == b.state = OPEN
is_closed(b) == b.state = CLOSED
is_half_open(b) == b.state = HALF_OPEN

\* ------------------------------------------------------- the RLock
\* variant: no mutual exclusion
can_acquire_always(th) == TRUE

\* threading.RLock: free, or already owned by the calling thread
can_acquire(th) == lock_owner = NoOwner \/ lock_owner = th

Acquire(th) ==
    /\ can_acquire(th)
    /\ lock_owner' = th
    /\ lock_count' = lock_count + 1

Release ==
    /\ lock_count' = lock_count - 1
    /\ lock_owner' = IF lock_count = 1 THEN NoOwner ELSE lock_owner

\* What a finished call gave its caller: whether the operation was invoked,
\* the error the operation raised, the error the caller received, and the
\* breaker state in which the outcome was recorded; n numbers the calls.
Outcome(c, op_error, error) ==
    [n |-> last.n + 1, invoked |-> (pc[c] = "in_op"), op_error |-> op_error,
     error |-> error, at_state |-> breaker.state]

\* number of calls started so far (bounds the run)
Started == last.n + Cardinality({c \in Callers : pc[c] \notin {"idle", "done"}})

\* --------------------------------------------- CircuitBreaker.call / acall
\* disabled breaker: the operation is invoked directly, no lock, no state
call_disabled(c) ==
    /\ pc[c] = "idle"
    /\ ~config.enabled
    /\ Started < MaxCalls
    /\ pc' = [pc EXCEPT ![c] = "in_op"]
    /\ op_calls' = op_calls + 1
    /\ UNCHANGED <<config, breaker, lock_owner, lock_count, now, last>>
    /\ UNCHANGED outside_breaker

\* variant: a rejection is counted as a failure of the breaker
call_reject_counted(c, after) ==
    /\ pc[c] = "idle"
    /\ config.enabled
    /\ Started < MaxCalls
    /\ can_acquire(ThreadOf(c))
    /\ rejects(breaker, config, now)
    /\ breaker' = [breaker EXCEPT !.total_requests = @ + 1,
                                  !.total_rejected = @ + 1,
                                  !.total_failures = @ + 1,
                                  !.failure_count = @ + 1]
    /\ last' = Outcome(c, NoError, CircuitBreakerOpenError)
    /\ pc' = [pc EXCEPT ![c] = after]
    /\ UNCHANGED <<config, lock_owner, lock_count, now, op_calls>>
    /\ UNCHANGED outside_breaker

\* enabled, circuit OPEN and recovery_timeout not elapsed: reject
call_reject(c, after) ==
    /\ pc[c] = "idle"
    /\ config.enabled
    /\ Started < MaxCalls
    /\ can_acquire(ThreadOf(c))
    /\ rejects(breaker, config, now)
    /\ breaker' = after_rejection(breaker)
    /\ last' = Outcome(c, NoError, CircuitBreakerOpenError)
    /\ pc' = [pc EXCEPT ![c] = after]
    /\ UNCHANGED <<config, lock_owner, lock_count, now, op_calls>>
    /\ UNCHANGED outside_breaker

\* enabled and admitted: the lock is taken and kept while the operation runs
call_admit(c) ==
    /\ pc[c] = "idle"
    /\ config.enabled
    /\ Started < MaxCalls
    /\ Acquire(ThreadOf(c))
    /\ ~rejects(breaker, config, now)
    /\ breaker' = after_admission(breaker)
    /\ pc' = [pc EXCEPT ![c] = "in_op"]
    /\ op_calls' = op_calls + 1
    /\ UNCHANGED <<config, now, last>>
    /\ UNCHANGED outside_breaker

\* variant: the success is recorded although the breaker is disabled
call_return_recorded(c, after) ==
    /\ pc[c] = "in_op"
    /\ breaker' = on_success(breaker, config, now)
    /\ IF config.enabled
       THEN lock_owner = ThreadOf(c) /\ Release
       ELSE UNCHANGED <<lock_owner, lock_count>>
    /\ last' = Outcome(c, NoError, NoError)
    /\ pc' = [pc EXCEPT ![c] = after]
    /\ UNCHANGED <<config, now, op_calls>>
    /\ UNCHANGED outside_breaker

\* the operation returned normally
call_return(c, after) ==
    /\ pc[c] = "in_op"
    /\ IF config.enabled
       THEN /\ lock_owner = ThreadOf(c)
            /\ breaker' = on_success(breaker, config, now)
            /\ Release
       ELSE UNCHANGED <<breaker, lock_owner, lock_count>>
    /\ last' = Outcome(c, NoError, NoError)
    /\ pc' = [pc EXCEPT ![c] = after]
    /\ UNCHANGED <<config, now, op_calls>>
    /\ UNCHANGED outside_breaker

\* variant: the failure that opens the circuit reaches the caller as
\* CircuitBreakerOpenError
call_raise_wrapped(c, e, after) ==
    /\ pc[c] = "in_op"
    /\ IF config.enabled
       THEN /\ lock_owner = ThreadOf(c)
            /\ breaker' = on_failure(breaker, config, now)
            /\ Release
       ELSE UNCHANGED <<breaker, lock_owner, lock_count>>
    /\ last' = Outcome(c, e, IF config.enabled /\ is_open(on_failure(breaker, config, now))
                             THEN CircuitBreakerOpenError ELSE e)
    /\ pc' = [pc EXCEPT ![c] = after]
    /\ UNCHANGED <<config, now, op_calls>>
    /\ UNCHANGED outside_breaker

\* the operation raised e
call_raise(c, e, after) ==
    /\ pc[c] = "in_op"
    /\ IF config.enabled
       THEN /\ lock_owner = ThreadOf(c)
            /\ breaker' = on_failure(breaker, config, now)
            /\ Release
       ELSE UNCHANGED <<breaker, lock_owner, lock_count>>
    /\ last' = Outcome(c, e, e)
    /\ pc' = [pc EXCEPT ![c] = after]
    /\ UNCHANGED <<config, now, op_calls>>
    /\ UNCHANGED outside_breaker

\* what an operation can end with that is no Exception: CancelledError thrown
\* into a cancelled task, KeyboardInterrupt in a thread
BaseErrors(c) == IF c[1] = "task" THEN {CancelledError} ELSE {KeyboardInterrupt}

\* the operation ended with a BaseException: 'except Exception' does not
\* catch it, the with block releases the lock and no outcome is recorded
call_abort(c, e, after) ==
    /\ pc[c] = "in_op"
    /\ IF config.enabled
       THEN lock_owner = ThreadOf(c) /\ Release
       ELSE UNCHANGED <<lock_owner, lock_count>>
    /\ last' = Outcome(c, e, e)
    /\ pc' = [pc EXCEPT ![c] = after]
    /\ UNCHANGED <<config, breaker, now, op_calls>>
    /\ UNCHANGED outside_breaker

\* ------------------------------------------------ administrative operations
\* variant: reset() also zeroes the cumulative counters
reset_clears_stats(th) ==
    /\ can_acquire(th)
    /\ breaker' = [set_closed(breaker) EXCEPT !.total_requests = 0,
                                              !.total_failures = 0,
                                              !.total_successes = 0,
                                              !.total_rejected = 0]
    /\ UNCHANGED <<config, lock_owner, lock_count, now, pc, op_calls, last>>
    /\ UNCHANGED outside_breaker

\* variant: reset() closes the breaker and keeps the counters
reset_state_only(th) ==
    /\ can_acquire(th)
    /\ breaker' = [breaker EXCEPT !.state = CLOSED]
    /\ UNCHANGED <<config, lock_owner, lock_count, now, pc, op_calls, last>>
    /\ UNCHANGED outside_breaker

reset(th) ==
    /\ can_acquire(th)
    /\ breaker' = set_closed(breaker)
    /\ UNCHANGED <<config, lock_owner, lock_count, now, pc, op_calls, last>>
    /\ UNCHANGED outside_breaker

\* variant: force_open() starts a new rejection window
force_open_stamped(th) ==
    /\ can_acquire(th)
    /\ breaker' = [set_open(breaker) EXCEPT !.last_failure_time = now]
    /\ UNCHANGED <<config, lock_owner, lock_count, now, pc, op_calls, last>>
    /\ UNCHANGED outside_breaker

force_open(th) ==
    /\ can_acquire(th)
    /\ breaker' = set_open(breaker)
    /\ UNCHANGED <<config, lock_owner, lock_count, now, pc, op_calls, last>>
    /\ UNCHANGED outside_breaker

\* a thread that is not inside a protected call
AdminThreads == {ThreadOf(c) : c \in {d \in Callers : pc[d] = "idle"}}

\* variant: a timer half-opens the breaker when the recovery window is over
Tick_timer ==
    /\ now < EndTime
    /\ now' = now + 1
    /\ breaker' = IF breaker.state = OPEN
                      /\ should_attempt_reset(breaker, config, now + 1)
                   THEN set_half_open(breaker) ELSE breaker
    /\ UNCHANGED <<config, lock_owner, lock_count>>
    /\ UNCHANGED <<pc, op_calls, last, deadline, component>>
    /\ UNCHANGED <<bulkhead_vars, limiter_vars, client_vars, retry_vars>>

Tick ==
    /\ now < EndTime
    /\ now' = now + 1
    /\ UNCHANGED <<pc, op_calls, last, deadline, component>>
    /\ UNCHANGED <<breaker_vars, bulkhead_vars, limiter_vars, client_vars, retry_vars>>

\* ------------------------------------------------------------ specification
\* CircuitBreakerConfig.expected_exception: the default and a narrower class
ExpectedExceptions == {"Exception", "ValueError"}

Configs ==
    [enabled : BOOLEAN,
     failure_threshold : 1..MaxFailureThreshold,
     recovery_timeout : 0..MaxRecoveryTimeout,
     expected_exception : ExpectedExceptions,
     success_threshold : 1..MaxSuccessThreshold]

NoCall ==
    [n |-> 0, invoked |-> FALSE, op_error |-> NoError,
     error |-> NoError, at_state |-> CLOSED]

InitCallers(comp, cs) ==
    /\ component = comp
    /\ now = StartTime
    /\ pc = [c \in cs |-> "idle"]
    /\ op_calls = 0
    /\ last = NoCall
    /\ deadline = [c \in cs |-> None]

InitBreaker(cfgs) ==
    /\ config \in cfgs
    /\ breaker = NewBreaker
    /\ lock_owner = NoOwner
    /\ lock_count = 0

\* components that take no part in a run stay as constructed
NoBulkhead ==
    /\ bh_config = [enabled |-> FALSE, max_concurrent |-> None, acquire_timeout |-> 0]
    /\ permits = 0
    /\ holds = {}
    /\ waiters = <<>>
    /\ stop = [c \in BulkheadPool |-> "no"]

\* http_service.decorators.rate_limit before its first call
NewSimple == [last_request_time |-> 0, deadline |-> None, op_starts |-> <<>>]

\* the locals of a rate_limit wrapper that is not running
NoLocals == [time |-> 0, since |-> 0, count |-> 0]

NoLimiter ==
    /\ rl_config = [min_interval |-> None, burst_size |-> 1]
    /\ last_request_time = 0
    /\ request_count = 0
    /\ op_starts = <<>>
    /\ rl_local = [c \in LimiterThreads |-> NoLocals]
    /\ simple = NewSimple

\* no logical request made yet
NoRequest == [path |-> "none", attempt |-> 0, recorded |-> 0, phase |-> "done"]

\* the retry wrapper before it is called
NotCalled ==
    [phase |-> "idle", attempt |-> 0, last_exception |-> NoError,
     outcomes |-> <<>>, sleeps |-> <<>>, slept |-> <<>>, wake |-> 0,
     returned |-> None, raised |-> NoError, t0 |-> 0]

\* no backoff delay is being computed
NoBackoff ==
    [fn |-> "none", attempt |-> 0, base_delay |-> 4, backoff_factor |-> 1,
     max_delay |-> 4, jitter |-> FALSE, result |-> None]

NoRetry ==
    /\ rt_config = [entry |-> "decorators.retry", max_retries |-> 0,
                    retry_delay |-> 1, backoff_factor |-> 1,
                    retry_on_exceptions |-> None,
                    retry_on_status_codes |-> None]
    /\ rt = NotCalled
    /\ bk = NoBackoff

\* no HttpClient, no caller of one
NoClient ==
    /\ client = [max_retries |-> 0, circuit_breaker_enabled |-> FALSE,
                 retry_on_status_codes |-> None]
    /\ req = <<>>

Init ==
    /\ InitBreaker(Configs)
    /\ InitCallers("breaker", Threads \cup Tasks)
    /\ NoBulkhead /\ NoLimiter /\ NoClient /\ NoRetry

\* the breaker of a run that goes through another component
UnusedBreaker ==
    InitBreaker({[enabled |-> FALSE, failure_threshold |-> 1,
                  recovery_timeout |-> 0, expected_exception |-> "Exception",
                  success_threshold |-> 1]})

Next ==
    \/ \E c \in Callers : call_disabled(c)
    \/ \E c \in Callers : call_reject(c, "idle")
    \/ \E c \in Callers : call_admit(c)
    \/ \E c \in Callers : call_return(c, "idle")
    \/ \E c \in Callers, e \in OpErrors : call_raise(c, e, "idle")
    \/ \E c \in Callers : \E e \in BaseErrors(c) : call_abort(c, e, "idle")
    \/ \E th \in AdminThreads : reset(th)
    \/ \E th \in AdminThreads : force_open(th)
    \/ Tick

Spec == Init /\ [][Next]_vars

\* ------------------------------------------------- Bulkhead / AsyncBulkhead
\* what no operation of the bulkhead touches
outside_bulkhead == <<component, breaker_vars, limiter_vars, client_vars, retry_vars>>

\* variant: a semaphore is made for every max_concurrent that is not None
has_semaphore_not_none(cfg) ==
    cfg.max_concurrent # None

\* __init__: a semaphore exists only for a positive max_concurrent
has_semaphore(cfg) ==
    cfg.max_concurrent # None /\ cfg.max_concurrent[1] > 0

NewPermits(cfg) == IF has_semaphore(cfg) THEN cfg.max_concurrent[1] ELSE 0

\* The semaphore of a Bulkhead is a threading.Semaphore: permits is its
\* _value, a thread that waits takes a permit when it finds one free, in no
\* order.  The semaphore of an AsyncBulkhead is an asyncio.Semaphore, modelled
\* as CPython 3.11 implements it: permits is its _value; acquire() queues the
\* task behind every task already queued; release() increments _value and
\* _wake_up_next() gives the permit to the oldest waiter whose future is not
\* done (_value -= 1, set_result).
\*
\* A step of a task is one callback of the event loop.  With acquire_timeout
\* = 0 the calling task runs acquire() itself.  With acquire_timeout > 0 it
\* calls asyncio.wait_for, which arms the timer and runs acquire() in a task
\* of its own: the caller goes on only in a later callback, after that task
\* has finished.  Positions of a task:
\*   "calling"   wait_for was called, acquire() has not run yet
\*   "waiting"   acquire() is queued
\*   "granted"   queued, a permit has been handed to it, it has not run since
\*   "acquired"  acquire() under wait_for returned True, the caller has not
\*               run since
\*   "stopped"   acquire() under wait_for ended cancelled, the caller has not
\*               run since
\* and stop[c] says what is ending the acquisition of c:
\*   "expired"     the timer of wait_for fired, the caller has not run since
\*   "cancel_req"  the caller under wait_for was cancelled and has not run since
\*   "reject"      wait_for cancelled acquire() after the timeout
\*   "cancel"      the task that runs acquire() or the body was cancelled

\* slot() goes through asyncio.wait_for
under_wait_for(c) == c[1] = "task" /\ bh_config.acquire_timeout > 0

\* the future of the queued acquire() of c is cancelled
fut_cancelled(p, c) == p[c] = "waiting" /\ stop[c] \in {"reject", "cancel"}

\* Semaphore.locked(): no permit is free, or a waiter that is not cancelled
\* is queued
locked ==
    \/ permits = 0
    \/ \E i \in 1..Len(waiters) : ~fut_cancelled(pc, waiters[i])

Queued(c) == \E i \in 1..Len(waiters) : waiters[i] = c

\* the queue without c
Unqueued(c) == SelectSeq(waiters, LAMBDA d : d # c)

\* positions in the queue ws of the tasks whose future is pending under p
PendingAt(ws, p) ==
    {i \in 1..Len(ws) : p[ws[i]] = "waiting" /\ ~fut_cancelled(p, ws[i])}

\* Caller c goes on to position q, giving back `back` permits (0 or 1); when
\* `wakes`, _wake_up_next() runs if a permit is then free.  Sets pc, permits,
\* holds and waiters.
semaphore_step(c, q, back, wakes) ==
    LET ws == Unqueued(c)
        p1 == [pc EXCEPT ![c] = q]
        v == permits + back
        pend == PendingAt(ws, p1)
        wake == wakes /\ v > 0 /\ pend # {}
        w == ws[CHOOSE i \in pend : \A j \in pend : i <= j]
        kept == IF q \in {"in_op", "acquired"} /\ c \in holds /\ back = 0
                THEN holds ELSE holds \ {c}
    IN  /\ waiters' = ws
        /\ pc' = IF wake THEN [p1 EXCEPT ![w] = "granted"] ELSE p1
        /\ permits' = IF wake THEN v - 1 ELSE v
        /\ holds' = IF wake THEN kept \cup {w} ELSE kept
        /\ UNCHANGED bh_config

\* disabled or unbounded: the body runs without a permit
slot_passthrough(c) ==
    /\ pc[c] = "idle"
    /\ Started < MaxCalls
    /\ ~bh_config.enabled \/ ~has_semaphore(bh_config)
    /\ pc' = [pc EXCEPT ![c] = "in_op"]
    /\ op_calls' = op_calls + 1
    /\ UNCHANGED <<now, last, deadline, bulkhead_vars, outside_bulkhead>>

\* asyncio.wait_for(self._semaphore.acquire(), timeout): the timer is armed
\* and acquire() is scheduled as a task; the caller waits for either
slot_call(c) ==
    /\ pc[c] = "idle"
    /\ Started < MaxCalls
    /\ bh_config.enabled /\ has_semaphore(bh_config)
    /\ under_wait_for(c)
    /\ pc' = [pc EXCEPT ![c] = "calling"]
    /\ deadline' = [deadline EXCEPT ![c] = Some(now + bh_config.acquire_timeout)]
    /\ UNCHANGED <<now, op_calls, last, bulkhead_vars, outside_bulkhead>>

\* where acquire() starts: at the call of slot(), for a thread also while it
\* waits, under wait_for in the task that was scheduled for it (it is ahead
\* of the caller in the loop, so it runs before wait_for can cancel it)
acquiring(c) ==
    \/ pc[c] = "idle" /\ Started < MaxCalls /\ ~under_wait_for(c)
    \/ pc[c] = "waiting" /\ c[1] = "thread"
    \/ pc[c] = "calling"

\* what taking a permit leads to: the body, or under wait_for the return of
\* the acquire() task to the caller
taken(c) == IF under_wait_for(c) THEN "acquired" ELSE "in_op"

\* variant: the body is entered whether or not a permit is free
slot_acquire_unchecked(c) ==
    /\ acquiring(c)
    /\ bh_config.enabled /\ has_semaphore(bh_config)
    /\ permits' = permits - 1
    /\ holds' = holds \cup {c}
    /\ pc' = [pc EXCEPT ![c] = taken(c)]
    /\ deadline' = IF under_wait_for(c) THEN deadline
                   ELSE [deadline EXCEPT ![c] = None]
    /\ op_calls' = IF taken(c) = "in_op" THEN op_calls + 1 ELSE op_calls
    /\ UNCHANGED <<now, last, bh_config, waiters, stop, outside_bulkhead>>

\* a permit is free: a thread takes it at entry or while it waits for one, a
\* task when acquire() starts and no task is queued
slot_acquire(c) ==
    /\ acquiring(c)
    /\ bh_config.enabled /\ has_semaphore(bh_config)
    /\ IF c[1] = "task" THEN ~locked ELSE permits > 0
    /\ permits' = permits - 1
    /\ holds' = holds \cup {c}
    /\ pc' = [pc EXCEPT ![c] = taken(c)]
    /\ deadline' = IF under_wait_for(c) THEN deadline
                   ELSE [deadline EXCEPT ![c] = None]
    /\ op_calls' = IF taken(c) = "in_op" THEN op_calls + 1 ELSE op_calls
    /\ UNCHANGED <<now, last, bh_config, waiters, stop, outside_bulkhead>>

\* variant: a thread waits for a permit even with acquire_timeout = 0
slot_wait_blocking(c) ==
    /\ \/ pc[c] = "idle" /\ Started < MaxCalls /\ ~under_wait_for(c)
       \/ pc[c] = "calling"
    /\ bh_config.enabled /\ has_semaphore(bh_config)
    /\ IF c[1] = "task" THEN locked ELSE permits = 0
    /\ pc' = [pc EXCEPT ![c] = "waiting"]
    /\ waiters' = IF c[1] = "task" THEN Append(waiters, c) ELSE waiters
    /\ deadline' = IF c[1] = "thread" /\ bh_config.acquire_timeout > 0
                   THEN [deadline EXCEPT ![c] = Some(now + bh_config.acquire_timeout)]
                   ELSE deadline
    /\ UNCHANGED <<now, op_calls, last, bh_config, permits, holds, stop, outside_bulkhead>>

\* no permit for the caller: a thread waits up to acquire_timeout > 0; the
\* acquire() of a task joins the queue, under the timer of wait_for when
\* acquire_timeout > 0 and without bound when it is 0 (plain await of acquire)
slot_wait(c) ==
    /\ \/ pc[c] = "idle" /\ Started < MaxCalls /\ ~under_wait_for(c)
       \/ pc[c] = "calling"
    /\ bh_config.enabled /\ has_semaphore(bh_config)
    /\ IF c[1] = "task" THEN locked ELSE permits = 0
    /\ bh_config.acquire_timeout > 0 \/ c[1] = "task"
    /\ pc' = [pc EXCEPT ![c] = "waiting"]
    /\ waiters' = IF c[1] = "task" THEN Append(waiters, c) ELSE waiters
    /\ deadline' = IF c[1] = "thread" /\ bh_config.acquire_timeout > 0
                   THEN [deadline EXCEPT ![c] = Some(now + bh_config.acquire_timeout)]
                   ELSE deadline
    /\ UNCHANGED <<now, op_calls, last, bh_config, permits, holds, stop, outside_bulkhead>>

\* under wait_for, the acquire() task that was handed a permit runs again: it
\* leaves the queue (waking the next waiter if a permit is free) and returns
\* True; the caller is woken by its done callback
slot_resume(c) ==
    /\ pc[c] = "granted"
    /\ under_wait_for(c)
    /\ stop[c] \in {"no", "expired", "cancel_req"}
    /\ semaphore_step(c, "acquired", 0, TRUE)
    /\ UNCHANGED <<now, op_calls, last, deadline, stop, outside_bulkhead>>

\* the body starts.  A task that awaits acquire() itself runs again with the
\* permit it was handed: acquire() leaves the queue (waking the next waiter
\* if a permit is free) and returns.  Under wait_for the caller runs again
\* once acquire() has returned True: wait_for returns that result, also when
\* the timer has fired or the caller was cancelled in the meantime.
slot_enter(c) ==
    /\ \/ pc[c] = "granted" /\ ~under_wait_for(c) /\ stop[c] = "no"
       \/ pc[c] = "acquired"
    /\ semaphore_step(c, "in_op", 0, pc[c] = "granted")
    /\ op_calls' = op_calls + 1
    /\ deadline' = [deadline EXCEPT ![c] = None]
    /\ stop' = [stop EXCEPT ![c] = "no"]
    /\ UNCHANGED <<now, last, outside_bulkhead>>

\* the timer of wait_for fires while acquire() has not returned: the caller
\* is woken (the timer's callback comes after the first run of acquire())
slot_expire(c) ==
    /\ under_wait_for(c)
    /\ pc[c] \in {"waiting", "granted"}
    /\ stop[c] = "no"
    /\ deadline[c] # None
    /\ now >= deadline[c][1]
    /\ stop' = [stop EXCEPT ![c] = "expired"]
    /\ UNCHANGED <<now, pc, op_calls, last, deadline, bh_config, permits, holds, waiters, outside_bulkhead>>

\* the caller of wait_for runs again after the timeout or after it was
\* cancelled, and acquire() has not returned: wait_for cancels the acquire()
\* task and waits for it to end.  A queued future that is pending is
\* cancelled at once and no longer counts as a waiter.
slot_stop(c) ==
    /\ under_wait_for(c)
    /\ pc[c] \in {"waiting", "granted"}
    /\ stop[c] \in {"expired", "cancel_req"}
    /\ stop' = [stop EXCEPT ![c] = IF stop[c] = "expired" THEN "reject" ELSE "cancel"]
    /\ UNCHANGED <<now, pc, op_calls, last, deadline, bh_config, permits, holds, waiters, outside_bulkhead>>

\* the cancelled acquire() task of wait_for runs: it leaves the queue, and a
\* permit that had been handed to it goes back (waking the next waiter); it
\* ends cancelled and its done callback wakes the caller
slot_unwind(c) ==
    /\ under_wait_for(c)
    /\ pc[c] \in {"waiting", "granted"}
    /\ stop[c] \in {"reject", "cancel"}
    /\ semaphore_step(c, "stopped", IF pc[c] = "granted" THEN 1 ELSE 0, pc[c] = "granted")
    /\ UNCHANGED <<now, op_calls, last, deadline, stop, outside_bulkhead>>

\* acquisition failed: BulkheadRejectedError, the body is not entered.  A
\* thread: no permit at entry with acquire_timeout = 0, or none when its wait
\* has run out.  A task: the caller of wait_for runs again after the
\* acquire() it cancelled on the timeout has ended; TimeoutError becomes
\* BulkheadRejectedError.
slot_reject(c, after) ==
    /\ bh_config.enabled /\ has_semaphore(bh_config)
    /\ \/ /\ pc[c] = "idle"
          /\ Started < MaxCalls
          /\ c[1] = "thread"
          /\ bh_config.acquire_timeout = 0
          /\ permits = 0
       \/ /\ pc[c] = "waiting"
          /\ c[1] = "thread"
          /\ deadline[c] # None
          /\ now >= deadline[c][1]
          /\ permits = 0
       \/ /\ pc[c] = "stopped"
          /\ stop[c] = "reject"
    /\ last' = Outcome(c, NoError, BulkheadRejectedError)
    /\ semaphore_step(c, after, 0, FALSE)
    /\ deadline' = [deadline EXCEPT ![c] = None]
    /\ stop' = [stop EXCEPT ![c] = "no"]
    /\ UNCHANGED <<now, op_calls, outside_bulkhead>>

\* finally: the permit, if one was taken, goes back
slot_release(c, after) ==
    semaphore_step(c, after, IF c \in holds THEN 1 ELSE 0, TRUE)

\* the body returned (an operation may also return after a cancellation was
\* thrown into it)
slot_return(c, after) ==
    /\ pc[c] = "in_op"
    /\ slot_release(c, after)
    /\ last' = Outcome(c, NoError, NoError)
    /\ stop' = [stop EXCEPT ![c] = "no"]
    /\ UNCHANGED <<now, op_calls, deadline, outside_bulkhead>>

\* variant: the permit is given back only when the body returns
slot_raise_leaks(c, e, after) ==
    /\ pc[c] = "in_op"
    /\ last' = Outcome(c, e, e)
    /\ pc' = [pc EXCEPT ![c] = after]
    /\ stop' = [stop EXCEPT ![c] = "no"]
    /\ UNCHANGED <<now, op_calls, deadline, bh_config, permits, holds, waiters, outside_bulkhead>>

\* the body raised e
slot_raise(c, e, after) ==
    /\ pc[c] = "in_op"
    /\ slot_release(c, after)
    /\ last' = Outcome(c, e, e)
    /\ stop' = [stop EXCEPT ![c] = "no"]
    /\ UNCHANGED <<now, op_calls, deadline, outside_bulkhead>>

\* Task.cancel() on a task inside slot(), and what it marks.  In the body, or
\* queued in an acquire() the task awaits itself: the task, whose pending
\* future is cancelled at once.  Under wait_for before the body: the caller,
\* which is woken; when wait_for is already cancelling acquire() after a
\* timeout, the caller ends with CancelledError instead of the rejection.
Cancellable(c) ==
    /\ c[1] = "task"
    /\ \/ pc[c] = "in_op" /\ stop[c] = "no"
       \/ ~under_wait_for(c) /\ pc[c] \in {"waiting", "granted"} /\ stop[c] = "no"
       \/ /\ under_wait_for(c)
          /\ pc[c] \in {"calling", "waiting", "granted", "acquired"}
          /\ stop[c] \in {"no", "expired"}
       \/ /\ under_wait_for(c)
          /\ pc[c] \in {"waiting", "granted", "stopped"}
          /\ stop[c] = "reject"

slot_cancel(c) ==
    /\ Cancellable(c)
    /\ stop' = [stop EXCEPT ![c] =
            IF under_wait_for(c) /\ pc[c] # "in_op" /\ stop[c] # "reject"
            THEN "cancel_req" ELSE "cancel"]
    /\ UNCHANGED <<now, pc, op_calls, last, deadline, bh_config, permits, holds, waiters, outside_bulkhead>>

\* where CancelledError leaves slot(): thrown in at the yield of the body, at
\* the await of acquire() in the queue, or raised by wait_for once the
\* acquire() it cancelled has ended
cancelled_at(c) ==
    /\ c[1] = "task"
    /\ stop[c] = "cancel"
    /\ \/ pc[c] = "in_op"
       \/ ~under_wait_for(c) /\ pc[c] \in {"waiting", "granted"}
       \/ pc[c] = "stopped"

\* variant: a cancelled task keeps the permit it has
slot_cancelled_leaks(c, after) ==
    /\ cancelled_at(c)
    /\ last' = Outcome(c, IF pc[c] = "in_op" THEN CancelledError ELSE NoError,
                       CancelledError)
    /\ pc' = [pc EXCEPT ![c] = after]
    /\ waiters' = Unqueued(c)
    /\ deadline' = [deadline EXCEPT ![c] = None]
    /\ stop' = [stop EXCEPT ![c] = "no"]
    /\ UNCHANGED <<now, op_calls, bh_config, permits, holds, outside_bulkhead>>

\* the cancelled task runs and CancelledError leaves slot().  In the body:
\* finally releases the permit.  Queued with its future cancelled: acquire()
\* leaves the queue, no permit was taken.  Queued with a permit handed to it:
\* acquire() leaves the queue, gives the permit back and wakes the next
\* waiter.  Under wait_for, when acquire() has ended cancelled: nothing is
\* left to give back.
slot_cancelled(c, after) ==
    /\ cancelled_at(c)
    /\ semaphore_step(c, after, IF c \in holds THEN 1 ELSE 0, pc[c] \in {"granted", "in_op"})
    /\ last' = Outcome(c, IF pc[c] = "in_op" THEN CancelledError ELSE NoError,
                       CancelledError)
    /\ deadline' = [deadline EXCEPT ![c] = None]
    /\ stop' = [stop EXCEPT ![c] = "no"]
    /\ UNCHANGED <<now, op_calls, outside_bulkhead>>

BulkheadConfigs ==
    [enabled : BOOLEAN,
     max_concurrent : {None} \cup {Some(n) : n \in (0 - 1)..MaxConcurrent},
     acquire_timeout : 0..1]

InitBulkhead(cfgs) ==
    /\ bh_config \in cfgs
    /\ permits = NewPermits(bh_config)
    /\ holds = {}
    /\ waiters = <<>>
    /\ stop = [c \in BulkheadPool |-> "no"]

\* ------------------------------- patterns.decorators.rate_limit / async_rate_limit
outside_limiter == <<component, breaker_vars, bulkhead_vars, client_vars, retry_vars>>

\* variant: the pass-through stamps the time of the request
rate_limit_pass_stamped(c) ==
    /\ pc[c] = "idle"
    /\ Started < MaxCalls
    /\ rl_config.min_interval = None
    /\ pc' = [pc EXCEPT ![c] = "in_op"]
    /\ op_calls' = op_calls + 1
    /\ last_request_time' = now
    /\ UNCHANGED <<now, last, deadline, rl_config, request_count, op_starts, rl_local, simple, outside_limiter>>

\* requests_per_second is None: the operation is called at once
rate_limit_pass(c) ==
    /\ pc[c] = "idle"
    /\ Started < MaxCalls
    /\ rl_config.min_interval = None
    /\ pc' = [pc EXCEPT ![c] = "in_op"]
    /\ op_calls' = op_calls + 1
    /\ UNCHANGED <<now, last, deadline, limiter_vars, outside_limiter>>

\* variant: the burst counter starts from 0 at every call
burst_after_reset_every_call(t) == 0

\* the burst counter as the wrapper leaves it before deciding to wait
burst_after_reset(t) ==
    IF t - last_request_time >= rl_config.min_interval[1]
    THEN 0 ELSE request_count

\* variant: the wait is a whole interval
sleep_time_whole(t) == rl_config.min_interval[1]

sleep_time(t) == rl_config.min_interval[1] - (t - last_request_time)

must_sleep(t) ==
    burst_after_reset(t) >= rl_config.burst_size /\ sleep_time(t) > 0

\* No lock guards the closure variables. A task runs the wrapper from its
\* entry to its await without another task in between, and so does a caller
\* that has the limiter to itself; threads sharing a limiter interleave
\* statement by statement (rate_limit_clock .. rate_limit_stamp below).
Uninterrupted(c) == c[1] = "task" \/ Callers = {c}

\* entry without a wait: count the request, stamp the time, call the operation
rate_limit_go(c) ==
    /\ pc[c] = "idle"
    /\ Uninterrupted(c)
    /\ Started < MaxCalls
    /\ rl_config.min_interval # None
    /\ ~must_sleep(now)
    /\ request_count' =
          IF burst_after_reset(now) >= rl_config.burst_size
          THEN 1 ELSE burst_after_reset(now) + 1
    /\ last_request_time' = now
    /\ op_starts' = Append(op_starts, now)
    /\ pc' = [pc EXCEPT ![c] = "in_op"]
    /\ op_calls' = op_calls + 1
    /\ UNCHANGED <<now, last, deadline, rl_config, rl_local, outside_limiter>>

\* entry with the burst used up inside the interval: sleep for the rest of it
rate_limit_sleep(c) ==
    /\ pc[c] = "idle"
    /\ Uninterrupted(c)
    /\ Started < MaxCalls
    /\ rl_config.min_interval # None
    /\ must_sleep(now)
    /\ request_count' = burst_after_reset(now)
    /\ pc' = [pc EXCEPT ![c] = "sleeping"]
    /\ deadline' = [deadline EXCEPT ![c] = Some(now + sleep_time(now))]
    /\ UNCHANGED <<now, op_calls, last, rl_config, last_request_time, op_starts, rl_local, outside_limiter>>

\* the sleep is over: reset and count, stamp the time, call the operation
rate_limit_wake(c) ==
    /\ pc[c] = "sleeping"
    /\ Uninterrupted(c)
    /\ now >= deadline[c][1]
    /\ request_count' = 1
    /\ last_request_time' = now
    /\ op_starts' = Append(op_starts, now)
    /\ pc' = [pc EXCEPT ![c] = "in_op"]
    /\ deadline' = [deadline EXCEPT ![c] = None]
    /\ op_calls' = op_calls + 1
    /\ UNCHANGED <<now, last, rl_config, rl_local, outside_limiter>>

\* ---- the same wrapper, one access to a closure variable per step (threads)
limiter_frame == <<now, last, rl_config, simple, outside_limiter>>

\* current_time = time.time()
rate_limit_clock(c) ==
    /\ pc[c] = "idle"
    /\ ~Uninterrupted(c)
    /\ Started < MaxCalls
    /\ rl_config.min_interval # None
    /\ rl_local' = [rl_local EXCEPT ![c].time = now]
    /\ pc' = [pc EXCEPT ![c] = "rl_read"]
    /\ UNCHANGED <<op_calls, deadline, last_request_time, request_count, op_starts, limiter_frame>>

\* time_since_last_request = current_time - last_request_time
rate_limit_read(c) ==
    /\ pc[c] = "rl_read"
    /\ LET since == rl_local[c].time - last_request_time
       IN  /\ rl_local' = [rl_local EXCEPT ![c].since = since, ![c].time = 0]
           /\ pc' = [pc EXCEPT ![c] =
                       IF since >= rl_config.min_interval[1]
                       THEN "rl_reset" ELSE "rl_test"]
    /\ UNCHANGED <<op_calls, deadline, last_request_time, request_count, op_starts, limiter_frame>>

\* if time_since_last_request >= min_interval: request_count = 0
rate_limit_reset(c) ==
    /\ pc[c] = "rl_reset"
    /\ request_count' = 0
    /\ pc' = [pc EXCEPT ![c] = "rl_test"]
    /\ UNCHANGED <<op_calls, deadline, last_request_time, op_starts, rl_local, limiter_frame>>

\* if request_count >= burst_size: sleep_time = min_interval - time_since_last_request,
\* time.sleep(sleep_time) if it is positive
rate_limit_test(c) ==
    /\ pc[c] = "rl_test"
    /\ LET wait == rl_config.min_interval[1] - rl_local[c].since
       IN  IF request_count < rl_config.burst_size
           THEN /\ pc' = [pc EXCEPT ![c] = "rl_load"]
                /\ UNCHANGED deadline
           ELSE IF wait > 0
           THEN /\ pc' = [pc EXCEPT ![c] = "sleeping"]
                /\ deadline' = [deadline EXCEPT ![c] = Some(now + wait)]
           ELSE /\ pc' = [pc EXCEPT ![c] = "rl_zero"]
                /\ UNCHANGED deadline
    /\ UNCHANGED <<op_calls, last_request_time, request_count, op_starts, rl_local, limiter_frame>>

\* time.sleep has returned
rate_limit_slept(c) ==
    /\ pc[c] = "sleeping"
    /\ ~Uninterrupted(c)
    /\ now >= deadline[c][1]
    /\ pc' = [pc EXCEPT ![c] = "rl_zero"]
    /\ deadline' = [deadline EXCEPT ![c] = None]
    /\ UNCHANGED <<op_calls, last_request_time, request_count, op_starts, rl_local, limiter_frame>>

\* request_count = 0 after the wait, or where no wait was left
rate_limit_zero(c) ==
    /\ pc[c] = "rl_zero"
    /\ request_count' = 0
    /\ pc' = [pc EXCEPT ![c] = "rl_load"]
    /\ UNCHANGED <<op_calls, deadline, last_request_time, op_starts, rl_local, limiter_frame>>

\* request_count += 1 reads the counter ...
rate_limit_load(c) ==
    /\ pc[c] = "rl_load"
    /\ rl_local' = [rl_local EXCEPT ![c].count = request_count]
    /\ pc' = [pc EXCEPT ![c] = "rl_store"]
    /\ UNCHANGED <<op_calls, deadline, last_request_time, request_count, op_starts, limiter_frame>>

\* ... and writes it back one higher
rate_limit_store(c) ==
    /\ pc[c] = "rl_store"
    /\ request_count' = rl_local[c].count + 1
    /\ pc' = [pc EXCEPT ![c] = "rl_time"]
    /\ UNCHANGED <<op_calls, deadline, last_request_time, op_starts, rl_local, limiter_frame>>

\* the right-hand side of last_request_time = time.time() is evaluated
rate_limit_time(c) ==
    /\ pc[c] = "rl_time"
    /\ rl_local' = [rl_local EXCEPT ![c].time = now]
    /\ pc' = [pc EXCEPT ![c] = "rl_stamp"]
    /\ UNCHANGED <<op_calls, deadline, last_request_time, request_count, op_starts, limiter_frame>>

\* the value is stored in last_request_time
rate_limit_stamp(c) ==
    /\ pc[c] = "rl_stamp"
    /\ last_request_time' = rl_local[c].time
    /\ rl_local' = [rl_local EXCEPT ![c] = NoLocals]
    /\ pc' = [pc EXCEPT ![c] = "rl_call"]
    /\ UNCHANGED <<op_calls, deadline, request_count, op_starts, limiter_frame>>

\* return func(*args, **kwargs): the operation is invoked
rate_limit_call(c) ==
    /\ pc[c] = "rl_call"
    /\ op_starts' = Append(op_starts, now)
    /\ pc' = [pc EXCEPT ![c] = "in_op"]
    /\ op_calls' = op_calls + 1
    /\ UNCHANGED <<deadline, last_request_time, request_count, rl_local, limiter_frame>>

rate_limit_return(c, after) ==
    /\ pc[c] = "in_op"
    /\ last' = Outcome(c, NoError, NoError)
    /\ pc' = [pc EXCEPT ![c] = after]
    /\ UNCHANGED <<now, op_calls, deadline, limiter_vars, outside_limiter>>

rate_limit_raise(c, e, after) ==
    /\ pc[c] = "in_op"
    /\ last' = Outcome(c, e, e)
    /\ pc' = [pc EXCEPT ![c] = after]
    /\ UNCHANGED <<now, op_calls, deadline, limiter_vars, outside_limiter>>

LimiterConfigs ==
    [min_interval : {None} \cup {Some(i) : i \in 1..MaxInterval},
     burst_size : 1..MaxBurst]

InitLimiter(cfgs) ==
    /\ rl_config \in cfgs
    /\ last_request_time = 0
    /\ request_count = 0
    /\ op_starts = <<>>
    /\ rl_local = [c \in LimiterThreads |-> NoLocals]
    /\ simple = NewSimple

\* ---------------------------------------- each component under its callers
\* A run exercises one component instance: the breaker (one thread and two
\* tasks), a Bulkhead (threads), an AsyncBulkhead (tasks), a rate_limit (one
\* thread) or an async_rate_limit (tasks).  Threads racing through rate_limit
\* are the subject of SpecLimiterThreads.
BulkheadCallers == {Pool("thread", MaxConcurrent + 1), Pool("task", MaxConcurrent + 1)}
LimiterCallers == {Pool("thread", 1), Pool("task", 2)}

InitComponents ==
    \/ Init
    \/ /\ \E cs \in BulkheadCallers : InitCallers("bulkhead", cs)
       /\ InitBulkhead(BulkheadConfigs)
       /\ UnusedBreaker /\ NoLimiter /\ NoClient /\ NoRetry
    \/ /\ \E cs \in LimiterCallers : InitCallers("rate_limit", cs)
       /\ InitLimiter(LimiterConfigs)
       /\ UnusedBreaker /\ NoBulkhead /\ NoClient /\ NoRetry

NextComponents ==
    \/ component = "breaker" /\ Next
    \/ \E c \in Callers : component = "bulkhead" /\ slot_passthrough(c)
    \/ \E c \in Callers : component = "bulkhead" /\ slot_call(c)
    \/ \E c \in Callers : component = "bulkhead" /\ slot_acquire(c)
    \/ \E c \in Callers : component = "bulkhead" /\ slot_wait(c)
    \/ \E c \in Callers : component = "bulkhead" /\ slot_resume(c)
    \/ \E c \in Callers : component = "bulkhead" /\ slot_enter(c)
    \/ \E c \in Callers : component = "bulkhead" /\ slot_expire(c)
    \/ \E c \in Callers : component = "bulkhead" /\ slot_stop(c)
    \/ \E c \in Callers : component = "bulkhead" /\ slot_unwind(c)
    \/ \E c \in Callers : component = "bulkhead" /\ slot_reject(c, "idle")
    \/ \E c \in Callers : component = "bulkhead" /\ slot_return(c, "idle")
    \/ \E c \in Callers : \E e \in OpErrors \cup BaseErrors(c) :
          component = "bulkhead" /\ slot_raise(c, e, "idle")
    \/ \E c \in Callers : component = "bulkhead" /\ slot_cancel(c)
    \/ \E c \in Callers : component = "bulkhead" /\ slot_cancelled(c, "idle")
    \/ \E c \in Callers : component = "rate_limit" /\ rate_limit_pass(c)
    \/ \E c \in Callers :
          component = "rate_limit" /\ rate_limit_go(c) /\ UNCHANGED simple
    \/ \E c \in Callers :
          component = "rate_limit" /\ rate_limit_sleep(c) /\ UNCHANGED simple
    \/ \E c \in Callers :
          component = "rate_limit" /\ rate_limit_wake(c) /\ UNCHANGED simple
    \/ \E c \in Callers : component = "rate_limit" /\ rate_limit_return(c, "idle")
    \/ \E c \in Callers, e \in OpErrors :
          component = "rate_limit" /\ rate_limit_raise(c, e, "idle")
    \/ component # "breaker" /\ Tick

SpecComponents == InitComponents /\ [][NextComponents]_vars

\* ------------------------------------- rate_limit under one sequential caller
InitLimiterSeq ==
    /\ InitCallers("rate_limit", Pool("thread", 1))
    /\ InitLimiter(LimiterConfigs)
    /\ UnusedBreaker /\ NoBulkhead /\ NoClient /\ NoRetry

NextLimiterSeq ==
    \/ \E c \in Callers : rate_limit_pass(c)
    \/ \E c \in Callers : rate_limit_go(c) /\ UNCHANGED simple
    \/ \E c \in Callers : rate_limit_sleep(c) /\ UNCHANGED simple
    \/ \E c \in Callers : rate_limit_wake(c) /\ UNCHANGED simple
    \/ \E c \in Callers : rate_limit_return(c, "idle")
    \/ \E c \in Callers, e \in OpErrors : rate_limit_raise(c, e, "idle")
    \/ Tick

SpecLimiterSeq == InitLimiterSeq /\ [][NextLimiterSeq]_vars

\* ------------------------------------------ rate_limit under racing threads
\* Two threads call one rate-limited function; the wrapper has no lock, so
\* a thread can be preempted between any two accesses to the closure
\* variables and to the clock.
InitLimiterThreads ==
    /\ InitCallers("rate_limit", LimiterThreads)
    /\ InitLimiter(LimiterConfigs)
    /\ UnusedBreaker /\ NoBulkhead /\ NoClient /\ NoRetry

NextLimiterThreads ==
    \/ \E c \in Callers : rate_limit_pass(c)
    \/ \E c \in Callers : rate_limit_clock(c)
    \/ \E c \in Callers : rate_limit_read(c)
    \/ \E c \in Callers : rate_limit_reset(c)
    \/ \E c \in Callers : rate_limit_test(c)
    \/ \E c \in Callers : rate_limit_slept(c)
    \/ \E c \in Callers : rate_limit_zero(c)
    \/ \E c \in Callers : rate_limit_load(c)
    \/ \E c \in Callers : rate_limit_store(c)
    \/ \E c \in Callers : rate_limit_time(c)
    \/ \E c \in Callers : rate_limit_stamp(c)
    \/ \E c \in Callers : rate_limit_call(c)
    \/ \E c \in Callers : rate_limit_return(c, "idle")
    \/ \E c \in Callers, e \in OpErrors : rate_limit_raise(c, e, "idle")
    \/ Tick

SpecLimiterThreads == InitLimiterThreads /\ [][NextLimiterThreads]_vars

\* ------------------- http_service.decorators.rate_limit / async_rate_limit
\* The limiter HttpClient uses: one closure variable, no burst parameter.
\* variant: the wait is a whole interval
simple_sleep_time_whole(t) == rl_config.min_interval[1]

simple_sleep_time(t) == rl_config.min_interval[1] - (t - simple.last_request_time)

simple_must_sleep(t) == t - simple.last_request_time < rl_config.min_interval[1]

\* entry at least an interval after the last request: stamp, call the operation
simple_go ==
    /\ simple.deadline = None
    /\ ~simple_must_sleep(now)
    /\ simple' = [simple EXCEPT !.last_request_time = now,
                                !.op_starts = Append(@, now)]

\* entry inside the interval: sleep for the rest of it
simple_sleep ==
    /\ simple.deadline = None
    /\ simple_must_sleep(now)
    /\ simple' = [simple EXCEPT !.deadline = Some(now + simple_sleep_time(now))]

\* the sleep is over: stamp, call the operation
simple_wake ==
    /\ simple.deadline # None
    /\ now >= simple.deadline[1]
    /\ simple' = [simple EXCEPT !.last_request_time = now,
                                !.op_starts = Append(@, now),
                                !.deadline = None]

\* ------------------------ the two rate limiters given the same calls
\* One sequential caller calls a function wrapped by patterns.decorators
\* rate_limit with burst_size = 1 and, at the same times, one wrapped by
\* http_service.decorators rate_limit with the same requests_per_second.
\* A sleep ends when its time is up.
PatternsDue(c) == pc[c] = "sleeping" /\ now >= deadline[c][1]
SimpleDue == simple.deadline # None /\ now >= simple.deadline[1]

pair_enter(c) ==
    /\ pc[c] = "idle"
    /\ IF must_sleep(now) THEN rate_limit_sleep(c) ELSE rate_limit_go(c)
    /\ IF simple_must_sleep(now) THEN simple_sleep ELSE simple_go

pair_wake(c) ==
    /\ PatternsDue(c) \/ SimpleDue
    /\ IF PatternsDue(c) THEN rate_limit_wake(c)
       ELSE UNCHANGED <<caller_vars, rl_config, last_request_time, request_count,
                        op_starts, outside_limiter>>
    /\ IF SimpleDue THEN simple_wake ELSE UNCHANGED simple

pair_return(c) ==
    /\ simple.deadline = None
    /\ rate_limit_return(c, "idle")

pair_raise(c, e) ==
    /\ simple.deadline = None
    /\ rate_limit_raise(c, e, "idle")

pair_tick ==
    /\ \A c \in Callers : ~PatternsDue(c)
    /\ ~SimpleDue
    /\ Tick

PairConfigs == {cfg \in LimiterConfigs : cfg.min_interval # None /\ cfg.burst_size = 1}
PairCallers == {Pool("thread", 1), Pool("task", 1)}

InitLimiterPair ==
    /\ \E cs \in PairCallers : InitCallers("rate_limit_pair", cs)
    /\ InitLimiter(PairConfigs)
    /\ UnusedBreaker /\ NoBulkhead /\ NoClient /\ NoRetry

NextLimiterPair ==
    \/ \E c \in Callers : pair_enter(c)
    \/ \E c \in Callers : pair_wake(c)
    \/ \E c \in Callers : pair_return(c)
    \/ \E c \in Callers, e \in OpErrors : pair_raise(c, e)
    \/ pair_tick

SpecLimiterPair == InitLimiterPair /\ [][NextLimiterPair]_vars

\* ------------------------------------ threads racing on the threshold
\* MaxCalls threads, one always-failing call each, on a fresh enabled breaker
\* whose recovery_timeout is longer than the run
RaceConfigs ==
    [enabled : {TRUE},
     failure_threshold : 1..MaxCalls,
     recovery_timeout : {Horizon + 1},
     expected_exception : {"Exception"},
     success_threshold : 1..MaxSuccessThreshold]

InitRace ==
    /\ InitBreaker(RaceConfigs)
    /\ InitCallers("breaker", Pool("thread", MaxCalls))
    /\ NoBulkhead /\ NoLimiter /\ NoClient /\ NoRetry

NextRace ==
    \/ \E c \in Callers : call_reject(c, "done")
    \/ \E c \in Callers : call_admit(c)
    \/ \E c \in Callers, e \in OpErrors : call_raise(c, e, "done")
    \/ Tick

SpecRace == InitRace /\ [][NextRace]_vars

\* ------------------------------------------------------------- HttpClient
\* _make_request (sync) and _make_async_request (async) around one physical
\* request, for a client built either way the constructor allows, with the
\* defaults for what is not modelled: no rate limit, retry_delay 1 s,
\* backoff_factor 2, raise_for_status off.
retry_delay == 1
backoff_factor == 2
\* HTTPClientConfig.retry_on_status_codes, which _init_from_config copies
RetryOnStatusCodes == {429, 500, 502, 503, 504}
\* the breaker's failure_status_codes: the configuration's list, or the same
\* list put in by __init__ when the keyword was left None
FailureStatusCodes == {500, 502, 503, 504}
HTTPStatusError == "HTTPStatusError"
\* what one physical request gives: a status code, or a transport error
Statuses == {200, 429, 500}
Responses ==
    {[status |-> st, error |-> NoError] : st \in Statuses}
        \cup {[status |-> 0, error |-> "TimeoutError"]}

RECURSIVE Pow(_, _)
Pow(b, n) == IF n = 0 THEN 1 ELSE b * Pow(b, n - 1)

\* http_service.decorators.retry: the sleep before attempt number attempt + 1
retry_sleep(attempt) == retry_delay * Pow(backoff_factor, attempt)

\* the loop goes on after a returned result: its status is looked up only
\* when retry_on_status_codes is truthy (None and the empty list are not)
retries_result(r, attempt, max_retries, retry_on_status_codes) ==
    /\ retry_on_status_codes # None
    /\ retry_on_status_codes[1] # {}
    /\ r.status \in retry_on_status_codes[1]
    /\ attempt < max_retries

\* the loop goes on after a raised error: HttpClient passes no
\* retry_on_exceptions, so should_retry stays False
retries_error(e, attempt, max_retries) == FALSE /\ attempt < max_retries

\* outcomes the breaker has recorded so far
Recorded == breaker.total_successes + breaker.total_failures

outside_client == <<component, bulkhead_vars, limiter_vars, retry_vars>>

\* a logical request entering its retry loop; recorded counts the times the
\* breaker's _on_success / _on_failure ran for it
NewRequest(path) == [path |-> path, attempt |-> 0, recorded |-> 0, phase |-> "running"]

\* the logical request of c is over: the caller gets err (NoError: the response)
request_done(c, err, op_err, invoked) ==
    /\ last' = [Outcome(c, op_err, err) EXCEPT !.invoked = invoked]
    /\ pc' = [pc EXCEPT ![c] = "idle"]
    /\ deadline' = [deadline EXCEPT ![c] = None]

\* the retry loop starts its sleep before the next attempt
request_again(c) ==
    /\ pc' = [pc EXCEPT ![c] = "sleeping"]
    /\ deadline' = [deadline EXCEPT ![c] = Some(now + retry_sleep(req[c].attempt))]
    /\ UNCHANGED <<last, req>>

\* _make_request: the breaker, when enabled, is entered before the retry
\* loop and its lock is held until the loop is over; the first physical
\* request is sent
make_request_begin(c) ==
    /\ c[1] = "thread" /\ pc[c] = "idle"
    /\ Started < MaxCalls
    /\ IF client.circuit_breaker_enabled
       THEN /\ ~rejects(breaker, config, now)
            /\ Acquire(ThreadOf(c))
            /\ breaker' = after_admission(breaker)
       ELSE UNCHANGED <<breaker, lock_owner, lock_count>>
    /\ req' = [req EXCEPT ![c] = NewRequest("sync")]
    /\ pc' = [pc EXCEPT ![c] = "in_op"]
    /\ op_calls' = op_calls + 1
    /\ UNCHANGED <<config, client, now, last, deadline, outside_client>>

make_request_rejected(c) ==
    /\ c[1] = "thread" /\ pc[c] = "idle"
    /\ Started < MaxCalls
    /\ client.circuit_breaker_enabled
    /\ can_acquire(ThreadOf(c))
    /\ rejects(breaker, config, now)
    /\ breaker' = after_rejection(breaker)
    /\ req' = [req EXCEPT ![c] = [NewRequest("sync") EXCEPT !.phase = "done"]]
    /\ last' = Outcome(c, NoError, CircuitBreakerOpenError)
    /\ UNCHANGED <<config, lock_owner, lock_count, client, now, pc, op_calls,
                   deadline, outside_client>>

\* the physical request of the sync path is answered by r: request_func
\* turns a failure status into HTTPStatusError, retry decides, and only when
\* retry is over does the breaker record the outcome and release its lock
make_request_answer(c, r) ==
    /\ pc[c] = "in_op" /\ req[c].path = "sync"
    /\ LET raised == r.error # NoError
                     \/ (client.circuit_breaker_enabled /\ r.status \in FailureStatusCodes)
           err == IF r.error # NoError THEN r.error ELSE HTTPStatusError
           again == IF raised
                    THEN retries_error(err, req[c].attempt, client.max_retries)
                    ELSE retries_result(r, req[c].attempt, client.max_retries,
                                        client.retry_on_status_codes)
       IN  IF again
           THEN /\ request_again(c)
                /\ UNCHANGED <<breaker, lock_owner, lock_count>>
           ELSE /\ IF client.circuit_breaker_enabled
                   THEN /\ breaker' = IF raised
                                      THEN on_failure(breaker, config, now)
                                      ELSE on_success(breaker, config, now)
                        /\ Release
                        /\ req' = [req EXCEPT ![c].phase = "done", ![c].recorded = @ + 1]
                   ELSE /\ UNCHANGED <<breaker, lock_owner, lock_count>>
                        /\ req' = [req EXCEPT ![c].phase = "done"]
                /\ request_done(c, IF raised THEN err ELSE NoError,
                                   IF r.error # NoError THEN r.error ELSE NoError,
                                   TRUE)
    /\ UNCHANGED <<config, client, now, op_calls, outside_client>>

\* time.sleep(delay) of the sync retry loop has returned: the next physical
\* request is sent, the breaker's lock still held
make_request_wake(c) ==
    /\ pc[c] = "sleeping" /\ req[c].path = "sync"
    /\ now >= deadline[c][1]
    /\ req' = [req EXCEPT ![c].attempt = @ + 1]
    /\ pc' = [pc EXCEPT ![c] = "in_op"]
    /\ deadline' = [deadline EXCEPT ![c] = None]
    /\ op_calls' = op_calls + 1
    /\ UNCHANGED <<breaker_vars, client, now, last, outside_client>>

\* _make_async_request: the retry loop is entered first and every attempt
\* goes through acall. The task is at an attempt when it starts the request
\* or when the await asyncio.sleep(delay) of its retry loop is over.
AtAttempt(c) ==
    /\ c[1] = "task"
    /\ \/ pc[c] = "idle" /\ Started < MaxCalls
       \/ pc[c] = "sleeping" /\ now >= deadline[c][1]

\* the request record as the attempt begins
Attempting(c) ==
    IF pc[c] = "idle" THEN NewRequest("async")
    ELSE [req[c] EXCEPT !.attempt = @ + 1]

\* acall admits the attempt and awaits the physical request inside
\* `with self._lock`: the event-loop thread owns the lock over the await
make_async_request_attempt(c) ==
    /\ AtAttempt(c)
    /\ IF client.circuit_breaker_enabled
       THEN /\ ~rejects(breaker, config, now)
            /\ Acquire(ThreadOf(c))
            /\ breaker' = after_admission(breaker)
       ELSE UNCHANGED <<breaker, lock_owner, lock_count>>
    /\ req' = [req EXCEPT ![c] = Attempting(c)]
    /\ pc' = [pc EXCEPT ![c] = "in_op"]
    /\ deadline' = [deadline EXCEPT ![c] = None]
    /\ op_calls' = op_calls + 1
    /\ UNCHANGED <<config, client, now, last, outside_client>>

\* acall rejects the attempt: retry does not retry the CircuitBreakerOpenError
make_async_request_rejected(c) ==
    /\ AtAttempt(c)
    /\ client.circuit_breaker_enabled
    /\ can_acquire(ThreadOf(c))
    /\ rejects(breaker, config, now)
    /\ breaker' = after_rejection(breaker)
    /\ req' = [req EXCEPT ![c] = [Attempting(c) EXCEPT !.phase = "done"]]
    /\ request_done(c, CircuitBreakerOpenError, NoError, Attempting(c).attempt > 0)
    /\ UNCHANGED <<config, lock_owner, lock_count, client, now, op_calls, outside_client>>

\* the awaited physical request is answered by r: acall records the outcome
\* of this attempt and releases the lock; retry decides; after the loop a
\* failure status becomes HTTPStatusError
make_async_request_answer(c, r) ==
    /\ pc[c] = "in_op" /\ req[c].path = "async"
    /\ IF client.circuit_breaker_enabled
       THEN /\ breaker' = IF r.error # NoError
                          THEN on_failure(breaker, config, now)
                          ELSE on_success(breaker, config, now)
            /\ Release
       ELSE UNCHANGED <<breaker, lock_owner, lock_count>>
    /\ LET again == IF r.error # NoError
                    THEN retries_error(r, req[c].attempt, client.max_retries)
                    ELSE retries_result(r, req[c].attempt, client.max_retries,
                                        client.retry_on_status_codes)
           counted == IF client.circuit_breaker_enabled THEN 1 ELSE 0
       IN  IF again
           THEN /\ pc' = [pc EXCEPT ![c] = "sleeping"]
                /\ deadline' = [deadline EXCEPT ![c] =
                                  Some(now + retry_sleep(req[c].attempt))]
                /\ req' = [req EXCEPT ![c].recorded = @ + counted]
                /\ UNCHANGED last
           ELSE /\ req' = [req EXCEPT ![c].recorded = @ + counted,
                                      ![c].phase = "done"]
                /\ request_done(c,
                    IF r.error # NoError THEN r.error
                    ELSE IF client.circuit_breaker_enabled /\ r.status \in FailureStatusCodes
                         THEN HTTPStatusError ELSE NoError,
                    IF r.error # NoError THEN r.error ELSE NoError,
                    TRUE)
    /\ UNCHANGED <<config, client, now, op_calls, outside_client>>

\* HttpClient.reset_circuit_breaker / force_open_circuit_breaker are public:
\* called from a thread that makes no request, or on the event loop between
\* the awaits of a request
MainThread == <<"main", 0>>
ClientAdminThreads == {MainThread, LoopThread}

reset_circuit_breaker(th) == reset(th)

force_open_circuit_breaker(th) == force_open(th)

\* every enabled breaker configuration, and one client without a breaker
ClientConfigs ==
    {cfg \in Configs :
        /\ cfg.expected_exception = "Exception"
        /\ cfg.enabled \/ (cfg.failure_threshold = 1 /\ cfg.success_threshold = 1
                            /\ cfg.recovery_timeout = 0)}

ClientCallers == Pool("thread", 1) \cup Pool("task", 1)

\* HttpClient.__init__, both branches. HttpClient(config=...) copies the
\* configuration's retry_on_status_codes (_init_from_config); HttpClient(**kw)
\* and the create_*_client factories hand the keyword on as it came, None
\* unless the caller gave a list, and kwargs.get finds the key, so the field
\* stays None (_init_from_params) and no status is retried.
InitClient ==
    /\ InitBreaker(ClientConfigs)
    /\ InitCallers("client", ClientCallers)
    /\ client \in [max_retries : 0..MaxRetries,
                   circuit_breaker_enabled : {config.enabled},
                   retry_on_status_codes : {Some(RetryOnStatusCodes), None}]
    /\ req = [c \in ClientCallers |-> NoRequest]
    /\ NoBulkhead /\ NoLimiter /\ NoRetry

NextClient ==
    \/ \E c \in Callers : make_request_begin(c)
    \/ \E c \in Callers : make_request_rejected(c)
    \/ \E c \in Callers, r \in Responses : make_request_answer(c, r)
    \/ \E c \in Callers : make_request_wake(c)
    \/ \E c \in Callers : make_async_request_attempt(c)
    \/ \E c \in Callers : make_async_request_rejected(c)
    \/ \E c \in Callers, r \in Responses : make_async_request_answer(c, r)
    \/ \E th \in ClientAdminThreads : reset_circuit_breaker(th)
    \/ \E th \in ClientAdminThreads : force_open_circuit_breaker(th)
    \/ Tick

SpecClient == InitClient /\ [][NextClient]_vars

\* ---------------------------------------------------- retry / async_retry
\* The four retry decorators of the repository.  http_service.decorators
\* (used by HttpClient) and http_service.patterns.decorators have the same
\* wrapper except for what should_retry is when retry_on_exceptions is
\* falsy; async_retry is retry with await.
RetryEntries ==
    {"patterns.retry", "patterns.async_retry",
     "decorators.retry", "decorators.async_retry"}

PatternsEntries == {"patterns.retry", "patterns.async_retry"}

\* exception classes the operation raises, and the classes a classifier names
ExcTypes == {"Exception"} \cup OpErrors
isinstance(e, t) == t = e \/ t = "Exception"

\* Python truth value of an Optional[list]
truthy(opt) == opt # None /\ opt[1] # {}

\* what one invocation of the operation gives the wrapper
OpResults ==
    {[kind |-> "result", status_code |-> sc, error |-> NoError]
        : sc \in {None, Some(200), Some(429)}}
OpRaises ==
    {[kind |-> "error", status_code |-> None, error |-> e] : e \in OpErrors}

\* variant: the classifier is not consulted
should_retry_unclassified(cfg, e) == TRUE

\* variant: an unconfigured classifier retries nothing
should_retry_never_by_default(cfg, e) ==
    IF truthy(cfg.retry_on_exceptions)
    THEN \E t \in cfg.retry_on_exceptions[1] : isinstance(e, t)
    ELSE FALSE

\* except branch: should_retry
should_retry(cfg, e) ==
    IF truthy(cfg.retry_on_exceptions)
    THEN \E t \in cfg.retry_on_exceptions[1] : isinstance(e, t)
    ELSE cfg.entry \in PatternsEntries

\* try branch: the result asks for a retry
result_retryable(cfg, res) ==
    /\ res.status_code # None
    /\ truthy(cfg.retry_on_status_codes)
    /\ res.status_code[1] \in cfg.retry_on_status_codes[1]

\* variant: the delay does not grow
delay_flat(cfg, attempt) == cfg.retry_delay

delay(cfg, attempt) == cfg.retry_delay * Pow(cfg.backoff_factor, attempt)

outside_retry ==
    <<pc, last, deadline, component, breaker_vars, bulkhead_vars,
      limiter_vars, client_vars, bk>>

\* the wrapper is called: last_exception = None, the loop starts
retry_call ==
    /\ rt.phase = "idle"
    /\ rt' = [rt EXCEPT !.phase = "running", !.t0 = now]
    /\ UNCHANGED <<rt_config, now, op_calls, outside_retry>>

\* result = func(*args, **kwargs): the operation is invoked and runs; the
\* thread blocks in it, the task awaits it
retry_invoke ==
    /\ rt.phase = "running"
    /\ rt' = [rt EXCEPT !.phase = "in_op"]
    /\ op_calls' = op_calls + 1
    /\ UNCHANGED <<rt_config, now, outside_retry>>

\* delay = ...; time.sleep(delay) / await asyncio.sleep(delay) is entered
retry_continue(r1) ==
    rt' = [r1 EXCEPT !.phase = "sleeping",
                     !.sleeps = Append(@, delay(rt_config, rt.attempt)),
                     !.wake = now + delay(rt_config, rt.attempt)]

\* variant: an exhausted loop raises the error an earlier attempt left
retry_returned_raises_stale(res) ==
    /\ rt.phase = "in_op"
    /\ LET r1 == [rt EXCEPT !.outcomes = Append(@, res)]
       IN  IF result_retryable(rt_config, res) /\ rt.attempt < rt_config.max_retries
           THEN retry_continue(r1)
           ELSE rt' = IF result_retryable(rt_config, res)
                         /\ rt.last_exception # NoError
                      THEN [r1 EXCEPT !.phase = "done",
                                      !.raised = rt.last_exception]
                      ELSE [r1 EXCEPT !.phase = "done",
                                      !.returned = Some(res)]
    /\ UNCHANGED <<rt_config, now, op_calls, outside_retry>>

\* the operation returns res: the wrapper returns it, or enters the sleep
\* before the next attempt
retry_returned(res) ==
    /\ rt.phase = "in_op"
    /\ LET r1 == [rt EXCEPT !.outcomes = Append(@, res)]
       IN  IF result_retryable(rt_config, res) /\ rt.attempt < rt_config.max_retries
           THEN retry_continue(r1)
           ELSE rt' = [r1 EXCEPT !.phase = "done", !.returned = Some(res)]
    /\ UNCHANGED <<rt_config, now, op_calls, outside_retry>>

\* variant: last_exception keeps the first error
retry_raised_keeps_first(o) ==
    /\ rt.phase = "in_op"
    /\ LET e == IF rt.last_exception = NoError THEN o.error ELSE rt.last_exception
           r1 == [rt EXCEPT !.outcomes = Append(@, o), !.last_exception = e]
       IN  IF should_retry(rt_config, o.error) /\ rt.attempt < rt_config.max_retries
           THEN retry_continue(r1)
           ELSE rt' = [r1 EXCEPT !.phase = "done", !.raised = e]
    /\ UNCHANGED <<rt_config, now, op_calls, outside_retry>>

\* the operation raises o.error: the wrapper enters the sleep before the next
\* attempt, or leaves the loop and raises last_exception
retry_raised(o) ==
    /\ rt.phase = "in_op"
    /\ LET r1 == [rt EXCEPT !.outcomes = Append(@, o), !.last_exception = o.error]
       IN  IF should_retry(rt_config, o.error) /\ rt.attempt < rt_config.max_retries
           THEN retry_continue(r1)
           ELSE rt' = [r1 EXCEPT !.phase = "done", !.raised = o.error]
    /\ UNCHANGED <<rt_config, now, op_calls, outside_retry>>

\* the sleep is over; continue: the loop moves to the next attempt
retry_wake ==
    /\ rt.phase = "sleeping"
    /\ now >= rt.wake
    /\ rt' = [rt EXCEPT !.phase = "running",
                        !.attempt = @ + 1,
                        !.slept = Append(@, now - (rt.wake - rt.sleeps[Len(rt.sleeps)])),
                        !.wake = 0]
    /\ UNCHANGED <<rt_config, now, op_calls, outside_retry>>

\* the clock goes on while the operation runs and while the wrapper sleeps;
\* a sleep always sees its deadline come
retry_clock ==
    /\ now < EndTime \/ (rt.phase = "sleeping" /\ now < rt.wake)
    /\ now' = now + 1
    /\ UNCHANGED <<rt_config, rt, op_calls, outside_retry>>

RetryConfigs ==
    [entry : RetryEntries,
     max_retries : 0..MaxRetries,
     retry_delay : 1..MaxRetryDelay,
     backoff_factor : 1..MaxBackoffFactor,
     retry_on_exceptions : {None, Some({}), Some({"ValueError"}), Some({"Exception"})},
     retry_on_status_codes : {None, Some({429})}]

InitRetry ==
    /\ rt_config \in RetryConfigs
    /\ rt = NotCalled
    /\ bk = NoBackoff
    /\ UnusedBreaker
    /\ InitCallers("retry", Threads)
    /\ NoBulkhead /\ NoLimiter /\ NoClient

NextRetry ==
    \/ retry_call
    \/ retry_invoke
    \/ \E res \in OpResults : retry_returned(res)
    \/ \E o \in OpRaises : retry_raised(o)
    \/ retry_wake
    \/ retry_clock

SpecRetry == InitRetry /\ [][NextRetry]_vars

\* the wrapper runs on: every invocation of the operation returns or raises,
\* and the clock reaches the deadline of every sleep
SpecRetryFair == SpecRetry /\ WF_vars(NextRetry)

\* ------------------------------------------------------------ backoff delay
\* utils.calculate_backoff_delay and the delay the retry loops compute, on
\* the same arguments.  Delays are in quarters of a second and base_delay
\* and max_delay are whole seconds, so that delay * 0.25 is exact.
Min(a, b) == IF a <= b THEN a ELSE b

max_jitter(d, max_delay) == Min(d \div 4, max_delay - d)

\* what delay += max_jitter * random.random() can add: random() is in
\* [0, 1), and for its largest values the floating-point sum rounds to
\* delay + max_jitter exactly
JitterAmounts(d, max_delay) ==
    IF max_jitter(d, max_delay) <= 0 THEN {0}
    ELSE 0..max_jitter(d, max_delay)

\* variant: the delay is not capped
calculate_backoff_delay_uncapped(attempt, base_delay, factor, max_delay, jitter, jitter_amount) ==
    LET d == base_delay * Pow(factor, attempt - 1)
    IN  IF jitter THEN d + jitter_amount ELSE d

\* attempt is 1-based; jitter_amount is the random draw
calculate_backoff_delay(attempt, base_delay, factor, max_delay, jitter, jitter_amount) ==
    LET d == Min(base_delay * Pow(factor, attempt - 1), max_delay)
    IN  IF jitter THEN d + jitter_amount ELSE d

outside_backoff ==
    <<now, pc, op_calls, last, deadline, component, breaker_vars,
      bulkhead_vars, limiter_vars, client_vars, rt_config, rt>>

\* calculate_backoff_delay is called for the retry after attempt bk.attempt
backoff_delay_call ==
    /\ bk.fn = "none"
    /\ LET d == Min(bk.base_delay * Pow(bk.backoff_factor, bk.attempt), bk.max_delay)
       IN  \E j \in JitterAmounts(d, bk.max_delay) :
              bk' = [bk EXCEPT !.fn = "calculate_backoff_delay",
                        !.result = Some(calculate_backoff_delay(
                            bk.attempt + 1, bk.base_delay, bk.backoff_factor,
                            bk.max_delay, bk.jitter, j))]
    /\ UNCHANGED outside_backoff

\* the retry loop computes the delay it sleeps after attempt bk.attempt; it
\* takes neither max_delay nor jitter
retry_delay_call ==
    /\ bk.fn = "none"
    /\ bk' = [bk EXCEPT !.fn = "retry",
                !.result = Some(delay([retry_delay |-> bk.base_delay,
                                       backoff_factor |-> bk.backoff_factor],
                                      bk.attempt))]
    /\ UNCHANGED outside_backoff

BackoffInputs ==
    [fn : {"none"},
     attempt : 0..MaxRetries,
     base_delay : {4 * i : i \in 1..MaxRetryDelay},
     backoff_factor : 1..MaxBackoffFactor,
     max_delay : {4 * i : i \in 1..MaxDelayCap},
     jitter : BOOLEAN,
     result : {None}]

InitBackoff ==
    /\ bk \in BackoffInputs
    /\ rt = NotCalled
    /\ rt_config = [entry |-> "decorators.retry", max_retries |-> 0,
                    retry_delay |-> 1, backoff_factor |-> 1,
                    retry_on_exceptions |-> None,
                    retry_on_status_codes |-> None]
    /\ UnusedBreaker
    /\ InitCallers("backoff", Threads)
    /\ NoBulkhead /\ NoLimiter /\ NoClient

NextBackoff ==
    \/ backoff_delay_call
    \/ retry_delay_call

SpecBackoff == InitBackoff /\ [][NextBackoff]_vars

\* ------------------------------------------------------- steps of a call
\* a protected call finished in this step (returned, raised or was rejected)
Completed == last'.n = last.n + 1
Rejected == Completed /\ last'.error = CircuitBreakerOpenError
Succeeded == Completed /\ last'.invoked /\ last'.op_error = NoError
\* the operation raised an Exception
Failed == Completed /\ last'.invoked /\ last'.op_error \in OpErrors
\* the operation ended with a BaseException that is no Exception
Aborted ==
    /\ Completed /\ last'.invoked
    /\ last'.op_error \in {CancelledError, KeyboardInterrupt}
\* a caller entered call/acall in this step and the operation was invoked
Admitted == op_calls' = op_calls + 1

\* ------------------------------------------------------------------ C1
\* C1: an enabled breaker that is CLOSED counts failures in failure_count
\* (each failure +1, each success back to 0) and a call opens it exactly when
\* that call's failure makes failure_count reach failure_threshold: a CLOSED
\* breaker always has failure_count < failure_threshold.
C1_Step ==
    config.enabled /\ breaker.state = CLOSED =>
        /\ Failed =>
              /\ breaker'.failure_count = breaker.failure_count + 1
              /\ breaker'.state =
                    IF breaker'.failure_count >= config.failure_threshold
                    THEN OPEN ELSE CLOSED
        /\ Succeeded =>
              /\ breaker'.failure_count = 0
              /\ breaker'.state = CLOSED
        /\ (Completed \/ Admitted) /\ breaker'.state = OPEN =>
              Failed /\ breaker.failure_count = config.failure_threshold - 1

C1_OpensOnNthFailure ==
    /\ [](config.enabled /\ breaker.state = CLOSED
            => breaker.failure_count < config.failure_threshold)
    /\ [][C1_Step]_vars

\* succeed, fail, fail with failure_threshold = 2: opened by the last call
C1_Witness ==
    /\ config.enabled /\ config.failure_threshold = 2
    /\ breaker.state = OPEN /\ breaker.failure_count = 2
    /\ breaker.total_failures = 2 /\ breaker.total_successes = 1
    /\ breaker.last_success_time < breaker.last_failure_time
    /\ last.at_state = CLOSED /\ last.op_error # NoError

\* ------------------------------------------------------------------ C2
\* C2: a call that finds the breaker OPEN at time now is rejected with
\* CircuitBreakerOpenError, the operation not invoked, iff
\* now - last_failure_time < recovery_timeout; otherwise it sets HALF_OPEN
\* with success_count = 0 and invokes the operation.
C2_Step ==
    /\ config.enabled /\ breaker.state = OPEN
         /\ breaker'.total_requests = breaker.total_requests + 1 =>
          IF now - breaker.last_failure_time < config.recovery_timeout
          THEN Rejected /\ ~last'.invoked /\ op_calls' = op_calls
                        /\ breaker'.state = OPEN
          ELSE /\ ~Completed /\ Admitted
               /\ breaker'.state = HALF_OPEN /\ breaker'.success_count = 0
               /\ \E c \in Callers : pc[c] = "idle" /\ pc'[c] = "in_op"
    /\ Rejected =>
          /\ breaker.state = OPEN
          /\ now - breaker.last_failure_time < config.recovery_timeout

C2_OpenRejectsUntilTimeout == [][C2_Step]_vars

\* a probe admitted exactly at last_failure_time + recovery_timeout, after a
\* rejection inside the window
C2_Witness ==
    /\ config.enabled /\ config.recovery_timeout >= 1
    /\ breaker.state = HALF_OPEN /\ breaker.success_count = 0
    /\ breaker.total_rejected >= 1
    /\ last.error = CircuitBreakerOpenError
    /\ now = breaker.last_failure_time + config.recovery_timeout
    /\ \E c \in Callers : pc[c] = "in_op"

\* ------------------------------------------------------------------ C3
\* C3: a rejected call changes nothing of the breaker but total_requests and
\* total_rejected, which grow by one each.
C3_Step ==
    Rejected =>
        breaker' = [breaker EXCEPT !.total_requests = @ + 1,
                                   !.total_rejected = @ + 1]

C3_RejectionNotCounted == [][C3_Step]_vars

C3_Witness ==
    /\ last.error = CircuitBreakerOpenError /\ ~last.invoked
    /\ breaker.total_rejected = 2
    /\ breaker.failure_count = 1 /\ breaker.total_failures = 1
    /\ breaker.state = OPEN

\* ------------------------------------------------------------------ C4
\* C4: in HALF_OPEN a success that leaves success_count below
\* success_threshold keeps the breaker HALF_OPEN with the count incremented;
\* the success that reaches success_threshold closes it with failure_count
\* and success_count both 0.
C4_Step ==
    config.enabled /\ breaker.state = HALF_OPEN /\ Succeeded =>
        IF breaker.success_count + 1 >= config.success_threshold
        THEN /\ breaker'.state = CLOSED
             /\ breaker'.failure_count = 0
             /\ breaker'.success_count = 0
        ELSE /\ breaker'.state = HALF_OPEN
             /\ breaker'.success_count = breaker.success_count + 1
             /\ breaker'.failure_count = breaker.failure_count

C4_HalfOpenClosesOnKthSuccess ==
    /\ [](breaker.state = HALF_OPEN
            => breaker.success_count < config.success_threshold)
    /\ [][C4_Step]_vars

\* closed by the second success of a probing phase that followed a failure
C4_Witness ==
    /\ config.enabled /\ config.success_threshold = 2
    /\ breaker.state = CLOSED
    /\ last.at_state = HALF_OPEN /\ last.invoked /\ last.error = NoError
    /\ breaker.total_successes = 2 /\ breaker.total_failures = 1
    /\ breaker.failure_count = 0 /\ breaker.success_count = 0

\* ------------------------------------------------------------------ C5
\* C5: a failure recorded while HALF_OPEN reopens the breaker at once,
\* adds one to the failure_count kept across OPEN -> HALF_OPEN and sets
\* last_failure_time to the time of the failure; the next probe is admitted
\* only recovery_timeout after that.
C5_Step ==
    /\ config.enabled /\ breaker.state = HALF_OPEN /\ Failed =>
          /\ breaker'.state = OPEN
          /\ breaker'.failure_count = breaker.failure_count + 1
          /\ breaker'.last_failure_time = now
    /\ breaker.state = OPEN /\ breaker'.state = HALF_OPEN =>
          /\ breaker'.failure_count = breaker.failure_count
          /\ now >= breaker.last_failure_time + config.recovery_timeout

C5_HalfOpenFailureReopens == [][C5_Step]_vars

\* reopened by a failed probe although success was counted and the count is
\* over the threshold
C5_Witness ==
    /\ config.enabled /\ config.failure_threshold = 1
    /\ config.success_threshold = 2
    /\ breaker.state = OPEN /\ breaker.failure_count = 2
    /\ breaker.success_count = 1
    /\ last.at_state = HALF_OPEN /\ last.op_error # NoError
    /\ breaker.last_failure_time > StartTime

\* ------------------------------------------------------------------ C6
\* C6: reset() in any state gives a CLOSED breaker with failure_count = 0
\* and success_count = 0, and a call that finds the breaker CLOSED is never
\* rejected: it invokes the operation.
C6_Step ==
    /\ (\E th \in AdminThreads : reset(th)) =>
          /\ is_closed(breaker')
          /\ breaker'.failure_count = 0
          /\ breaker'.success_count = 0
    /\ config.enabled /\ is_closed(breaker)
         /\ breaker'.total_requests = breaker.total_requests + 1 =>
          Admitted /\ ~Completed

C6_ResetCloses == [][C6_Step]_vars

\* CLOSED although the last finished call was rejected: reset() closed an
\* OPEN breaker, and a call was admitted since
C6_Witness ==
    /\ config.enabled
    /\ is_closed(breaker)
    /\ last.error = CircuitBreakerOpenError
    /\ breaker.failure_count = 0 /\ breaker.total_failures >= 1
    /\ \E c \in Callers : pc[c] = "in_op"
    /\ breaker.total_requests = breaker.total_failures + breaker.total_rejected + 1

\* ------------------------------------------------------------------ C7
\* C7: with enabled = false every call invokes the operation, the caller gets
\* the operation's own result or error, never CircuitBreakerOpenError, and
\* no call changes any field of the breaker.
C7_Step ==
    ~config.enabled =>
        /\ (\A c \in Callers : pc[c] = "idle" /\ pc'[c] # pc[c] =>
                pc'[c] = "in_op" /\ Admitted)
        /\ Completed =>
              /\ last'.invoked
              /\ last'.error = last'.op_error
              /\ last'.error # CircuitBreakerOpenError
        /\ (Completed \/ Admitted) => breaker' = breaker

C7_DisabledPassThrough ==
    /\ [](~config.enabled =>
            /\ breaker.total_requests = 0 /\ breaker.total_rejected = 0
            /\ breaker.total_failures = 0 /\ breaker.total_successes = 0
            /\ breaker.failure_count = 0 /\ breaker.success_count = 0
            /\ breaker.last_failure_time = 0 /\ breaker.last_success_time = 0
            /\ last.error # CircuitBreakerOpenError)
    /\ [][C7_Step]_vars

\* a disabled breaker forced OPEN whose calls all went through
C7_Witness ==
    /\ ~config.enabled
    /\ is_open(breaker)
    /\ op_calls = MaxCalls
    /\ last.n = MaxCalls /\ last.op_error = "ValueError" /\ last.error = "ValueError"

\* ------------------------------------------------------------------ C8
\* C8: a caller gets CircuitBreakerOpenError only from the breaker and
\* BulkheadRejectedError only from a bulkhead, both only from a call in which
\* the operation (the guarded body) was not invoked; and when the operation
\* was invoked and raised, the caller of the breaker, the rate limiter or the
\* bulkhead gets exactly the error the operation raised.
C8_Kinds ==
    /\ last.error = CircuitBreakerOpenError =>
          ~last.invoked /\ component = "breaker"
    /\ last.error = BulkheadRejectedError =>
          ~last.invoked /\ component = "bulkhead"
    /\ last.invoked => last.error = last.op_error
    /\ ~last.invoked => last.op_error = NoError

C8_Step ==
    Completed /\ last'.error \in {CircuitBreakerOpenError, BulkheadRejectedError} =>
        /\ op_calls' = op_calls
        /\ \A c \in Callers : pc[c] = "in_op" => pc'[c] = "in_op"

C8_RejectionsDistinct == []C8_Kinds /\ [][C8_Step]_vars

\* an AsyncBulkhead rejected a task after its bounded wait while
\* max_concurrent bodies are running
C8_Witness ==
    /\ component = "bulkhead"
    /\ \A c \in Callers : c[1] = "task"
    /\ last.error = BulkheadRejectedError /\ ~last.invoked
    /\ permits = 0
    /\ Cardinality({c \in Callers : pc[c] = "in_op"}) = MaxConcurrent
    /\ op_calls = MaxConcurrent

\* ------------------------------------------------------------------ C9
\* C9: MaxCalls threads each make one always-failing call on a fresh enabled
\* breaker with failure_threshold N <= MaxCalls and a recovery_timeout that
\* does not elapse: never more than N operations are invoked, and when all
\* threads are done exactly N were invoked, the others were rejected, and
\* the breaker is OPEN with failure_count = N.
C9_ThresholdAtomic ==
    /\ op_calls <= config.failure_threshold
    /\ (\A c \in Callers : pc[c] = "done") =>
          /\ op_calls = config.failure_threshold
          /\ breaker.total_failures = config.failure_threshold
          /\ breaker.total_rejected = Cardinality(Callers) - config.failure_threshold
          /\ breaker.state = OPEN
          /\ breaker.failure_count = config.failure_threshold

\* all threads done, one of them rejected
C9_Witness ==
    /\ \A c \in Callers : pc[c] = "done"
    /\ Cardinality(Callers) = MaxCalls
    /\ config.failure_threshold = MaxCalls - 1
    /\ breaker.total_rejected = 1
    /\ last.error = CircuitBreakerOpenError

\* ----------------------------------------------------------------- C10
\* C10: in the sync and in the async client path the breaker records nothing
\* while the retry loop of a logical request runs, and at most one success
\* or failure for the whole request.
C10_OneOutcomePerRequest ==
    \A c \in Callers :
        /\ req[c].phase = "running" => req[c].recorded = 0
        /\ req[c].recorded <= 1

\* the same statement for the sync path alone
C10_SyncOneOutcome ==
    \A c \in Callers :
        req[c].path = "sync" =>
            /\ req[c].phase = "running" => req[c].recorded = 0
            /\ req[c].recorded <= 1

\* the first request of a client is an async one: its retry loop is asleep
\* before the third attempt and the two earlier attempts are already on the
\* breaker's record
C10_AsyncPerAttempt ==
    \E c \in Callers :
        /\ req[c].path = "async" /\ req[c].phase = "running"
        /\ pc[c] = "sleeping" /\ req[c].attempt = 1
        /\ req[c].recorded = 2
        /\ last.n = 0 /\ \A d \in Callers \ {c} : req[d] = NoRequest
        /\ breaker.total_requests = 2 /\ Recorded = 2

\* ----------------------------------------------------------------- C11
\* a request of the client ended in this step on a response whose status
\* the breaker's failure_status_codes flag (the client reports it as
\* HTTPStatusError)
FlaggedResult ==
    /\ Completed
    /\ client.circuit_breaker_enabled
    /\ last'.error = HTTPStatusError

RecordedAsFailure ==
    /\ breaker'.total_failures = breaker.total_failures + 1
    /\ breaker'.failure_count = breaker.failure_count + 1
    /\ breaker'.last_failure_time = now
    /\ breaker'.total_successes = breaker.total_successes
    /\ breaker.state = HALF_OPEN => breaker'.state = OPEN
    /\ breaker.state = CLOSED =>
          (breaker'.state = OPEN
              <=> breaker'.failure_count >= config.failure_threshold)

\* C11: a protected call whose operation returns a result with a status in
\* failure_status_codes is recorded by the breaker as a failure, in the sync
\* and in the async client path.
C11_FlaggedResultIsFailure ==
    [][FlaggedResult => RecordedAsFailure]_vars

\* the same statement for the sync path alone
C11_SyncFlaggedResultIsFailure ==
    [][(FlaggedResult /\ \E c \in Callers :
            pc[c] = "in_op" /\ pc'[c] = "idle" /\ req[c].path = "sync")
        => RecordedAsFailure]_vars

\* an async request ended on a flagged response and the breaker, still
\* CLOSED, has only successes on its record
C11_AsyncFlaggedIsSuccess ==
    /\ \E c \in Callers :
          /\ req[c].path = "async" /\ req[c].phase = "done"
          /\ \A d \in Callers \ {c} : req[d] = NoRequest
    /\ last.error = HTTPStatusError
    /\ breaker.total_failures = 0
    /\ breaker.total_successes = last.n
    /\ breaker.state = CLOSED

\* ------------------------------------------------------ retry: vocabulary
RetryDone == rt.phase = "done"
Invocations == Len(rt.outcomes)
LastOutcome == rt.outcomes[Len(rt.outcomes)]

\* the error classifier, as configured, lets e be retried (patterns: every
\* error when none is configured)
RetryableError(e) ==
    truthy(rt_config.retry_on_exceptions) =>
        \E t \in rt_config.retry_on_exceptions[1] : isinstance(e, t)

RetryableResult(o) ==
    /\ o.status_code # None
    /\ truthy(rt_config.retry_on_status_codes)
    /\ o.status_code[1] \in rt_config.retry_on_status_codes[1]

AllRetryableErrors ==
    \A i \in 1..Len(rt.outcomes) :
        rt.outcomes[i].kind = "error" /\ RetryableError(rt.outcomes[i].error)

RECURSIVE SumSeq(_)
SumSeq(q) == IF q = <<>> THEN 0 ELSE Head(q) + SumSeq(Tail(q))

\* ----------------------------------------------------------------- C12
C12_Bounded ==
    /\ op_calls <= rt_config.max_retries + 1
    /\ Invocations <= op_calls
    /\ rt.attempt <= rt_config.max_retries
    /\ (RetryDone /\ rt_config.entry \in PatternsEntries /\ AllRetryableErrors) =>
          /\ Invocations = rt_config.max_retries + 1
          /\ op_calls = rt_config.max_retries + 1
          /\ rt.raised = LastOutcome.error
          /\ rt.returned = None

\* C12: patterns retry / async_retry with max_retries = R never invokes the
\* operation more than R + 1 times in one call and the call ends; an
\* operation that always raises a retryable error is invoked exactly R + 1
\* times and the caller gets the error of the last invocation.
C12_BoundedAndTerminates == []C12_Bounded /\ <>RetryDone

C12_Witness ==
    /\ RetryDone /\ rt_config.entry = "patterns.async_retry"
    /\ rt_config.max_retries = 2
    /\ Invocations = 3 /\ AllRetryableErrors
    /\ rt.outcomes[1].error = "TimeoutError"
    /\ rt.outcomes[3].error = "ValueError"
    /\ rt.raised = "ValueError"

\* ----------------------------------------------------------------- C13
\* C13: with patterns retry / async_retry, an operation that raises
\* retryable errors on its first k <= R invocations and then returns a
\* non-retryable result is invoked exactly k + 1 times: the wrapper goes on
\* after each of the k errors, and returns the result with no error and no
\* further invocation.
C13_SucceedsAfterFailures ==
    rt_config.entry \in PatternsEntries =>
        /\ (AllRetryableErrors /\ Invocations >= 1
                /\ Invocations <= rt_config.max_retries) => ~RetryDone
        /\ \A i \in 1..Invocations :
              (rt.outcomes[i].kind = "result" /\ ~RetryableResult(rt.outcomes[i])) =>
                  /\ i = Invocations /\ i = op_calls
                  /\ RetryDone
                  /\ rt.returned = Some(rt.outcomes[i])
                  /\ rt.raised = NoError

C13_Witness ==
    /\ RetryDone /\ rt_config.entry = "patterns.retry"
    /\ rt_config.max_retries = 2
    /\ rt_config.retry_on_exceptions = None
    /\ Invocations = 3
    /\ rt.outcomes[1].kind = "error" /\ rt.outcomes[2].kind = "error"
    /\ rt.returned = Some(rt.outcomes[3])
    /\ rt.outcomes[3].status_code = Some(200)

\* ----------------------------------------------------------------- C14
\* C14: with retry_on_exceptions configured, an error matching none of its
\* types ends the call at once: no sleep after it, no further invocation,
\* that error reaches the caller (one invocation when it is the first).
C14_NoRetryOnUnmatched ==
    truthy(rt_config.retry_on_exceptions) =>
        \A i \in 1..Invocations :
            (rt.outcomes[i].kind = "error" /\ ~RetryableError(rt.outcomes[i].error)) =>
                /\ i = Invocations /\ i = op_calls
                /\ RetryDone
                /\ rt.raised = rt.outcomes[i].error
                /\ Len(rt.sleeps) = i - 1
                /\ Len(rt.slept) = i - 1

C14_Witness ==
    /\ RetryDone
    /\ rt_config.retry_on_exceptions = Some({"ValueError"})
    /\ rt_config.max_retries = 2
    /\ rt.outcomes = <<[kind |-> "error", status_code |-> None, error |-> "TimeoutError"]>>
    /\ rt.raised = "TimeoutError"
    /\ rt.sleeps = <<>> /\ op_calls = 1

\* ----------------------------------------------------------------- C15
\* C15: when the last of the max_retries + 1 attempts returns a result (even
\* one the result classifier flags as retryable), the wrapper returns that
\* result and raises nothing, also when an earlier attempt of the call
\* raised a retryable error.
C15_ExhaustedReturnsLastResult ==
    (RetryDone /\ Invocations = rt_config.max_retries + 1
        /\ LastOutcome.kind = "result") =>
            /\ rt.returned = Some(LastOutcome)
            /\ rt.raised = NoError

C15_Witness ==
    /\ RetryDone /\ rt_config.max_retries = 2 /\ Invocations = 3
    /\ rt.outcomes[1].kind = "error"
    /\ rt.last_exception # NoError
    /\ RetryableResult(rt.outcomes[2]) /\ RetryableResult(rt.outcomes[3])
    /\ rt.returned = Some(rt.outcomes[3])

\* ----------------------------------------------------------------- C16
\* C16: with no error classifier configured, every retry entry point treats
\* every raised error as retryable: an always-failing operation is invoked
\* max_retries + 1 times, whichever entry point wraps it.
C16_UniformDefault ==
    (RetryDone /\ ~truthy(rt_config.retry_on_exceptions)
        /\ \A i \in 1..Invocations : rt.outcomes[i].kind = "error") =>
            Invocations = rt_config.max_retries + 1

\* the same statement for the patterns decorators alone
C16_PatternsDefault ==
    rt_config.entry \in PatternsEntries => C16_UniformDefault

\* the client's decorator gave up after the first error
C16_ClientNoRetry ==
    /\ RetryDone /\ rt_config.entry = "decorators.retry"
    /\ rt_config.retry_on_exceptions = None
    /\ rt_config.max_retries = 2
    /\ Invocations = 1 /\ rt.raised # NoError

\* ----------------------------------------------------------------- C17
\* C17: one sleep between two consecutive attempts and none after the last;
\* the sleep after failed attempt i (0-based) is one of
\* retry_delay * backoff_factor^i and lasts that long, so the call has lasted
\* at least the sum of them.
C17_SleepsBetweenAttempts ==
    /\ Len(rt.slept) = rt.attempt
    /\ Len(rt.sleeps) = IF rt.phase = "sleeping" THEN rt.attempt + 1 ELSE rt.attempt
    /\ rt.phase = "running" => Len(rt.sleeps) = op_calls
    /\ rt.phase = "in_op" => Len(rt.sleeps) = op_calls - 1
    /\ rt.phase = "sleeping" => Len(rt.sleeps) = op_calls
    /\ RetryDone => Len(rt.sleeps) = op_calls - 1
    /\ \A i \in 1..Len(rt.sleeps) :
          rt.sleeps[i] = rt_config.retry_delay * Pow(rt_config.backoff_factor, i - 1)
    /\ \A i \in 1..Len(rt.slept) : rt.slept[i] >= rt.sleeps[i]
    /\ rt.phase # "idle" => now - rt.t0 >= SumSeq(rt.slept)

\* failed twice, then succeeded, backoff_factor 2: slept d, then 2d, and the
\* operation took no time
C17_Witness ==
    /\ RetryDone /\ rt_config.backoff_factor = 2
    /\ Invocations = 3 /\ op_calls = 3
    /\ rt.outcomes[1].kind = "error" /\ rt.outcomes[2].kind = "error"
    /\ rt.returned = Some(rt.outcomes[3])
    /\ rt.sleeps = <<rt_config.retry_delay, 2 * rt_config.retry_delay>>
    /\ rt.slept = rt.sleeps
    /\ now - rt.t0 = 3 * rt_config.retry_delay

\* ----------------------------------------------------------------- C18
\* min(base_delay * backoff_factor^attempt, max_delay) for the arguments in bk
Capped == Min(bk.base_delay * Pow(bk.backoff_factor, bk.attempt), bk.max_delay)

\* C18: every delay computed for a retry, by calculate_backoff_delay and by
\* the retry loop, is min(base_delay * backoff_factor^attempt, max_delay)
\* without jitter; with jitter it is at least that, at most 25% above it, and
\* never above max_delay.
C18_DelayCapped ==
    bk.result # None =>
        IF bk.jitter /\ bk.fn = "calculate_backoff_delay"
        THEN /\ bk.result[1] >= Capped
             /\ 4 * bk.result[1] <= 5 * Capped
             /\ bk.result[1] <= bk.max_delay
        ELSE bk.result[1] = Capped

\* the same statement for calculate_backoff_delay alone
C18_FunctionCapped ==
    bk.fn = "calculate_backoff_delay" => C18_DelayCapped

\* calculate_backoff_delay added jitter to a delay
C18_FunctionJittered ==
    /\ bk.fn = "calculate_backoff_delay" /\ bk.jitter
    /\ bk.result[1] > Capped

\* the retry loop computed a delay above max_delay
C18_LoopUncapped ==
    /\ bk.fn = "retry"
    /\ bk.result # None
    /\ bk.result[1] > bk.max_delay

\* ----------------------------------------------------------------- C19
\* a caller entered the rate-limited function in this step
Entered(c) == pc[c] = "idle" /\ pc'[c] # "idle"

C19_Step ==
    (component = "rate_limit" /\ rl_config.min_interval = None) =>
        /\ last_request_time' = last_request_time
        /\ request_count' = request_count
        /\ \A c \in Callers :
              /\ pc'[c] # "sleeping"
              /\ Entered(c) =>
                    /\ pc'[c] = "in_op"
                    /\ op_calls' = op_calls + 1
                    /\ now' = now

\* C19: with requests_per_second = None, rate_limit / async_rate_limit is a
\* pass-through: every call invokes the operation at once, none sleeps, and
\* last_request_time and the burst counter are never changed.
C19_NoLimitPassThrough == [][C19_Step]_vars

C19_Witness ==
    /\ component = "rate_limit" /\ rl_config.min_interval = None
    /\ last.n = MaxCalls /\ op_calls = MaxCalls
    /\ now = StartTime
    /\ last_request_time = 0 /\ request_count = 0

\* ----------------------------------------------------------------- C20
C20_Step ==
    \A c \in Callers :
        (Entered(c) /\ rl_config.min_interval # None) =>
            LET interval == rl_config.min_interval[1]
                elapsed == now - last_request_time
                delayed == pc'[c] = "sleeping"
            IN  /\ delayed <=> (elapsed < interval
                                /\ request_count >= rl_config.burst_size)
                /\ delayed => /\ deadline'[c] = Some(now + (interval - elapsed))
                              /\ op_calls' = op_calls
                /\ ~delayed => pc'[c] = "in_op" /\ op_calls' = op_calls + 1

\* the operation is not invoked before the wait is over
C20_Wake ==
    \A c \in Callers :
        (pc[c] = "sleeping" /\ pc'[c] # "sleeping") =>
            /\ pc'[c] = "in_op" /\ op_calls' = op_calls + 1
            /\ now >= deadline[c][1]

\* C20: for one sequential caller of rate_limit, a call is delayed iff at
\* entry now - last_request_time < interval and the burst counter has
\* reached burst_size, and then by exactly interval - elapsed before the
\* operation is invoked; the first burst_size back-to-back calls on a fresh
\* limiter are not delayed and the next one is.
C20_DelayedIffBurstUsed == [][C20_Step /\ C20_Wake]_vars

\* burst_size = 2: two calls went through back to back, the third waits a
\* whole interval
C20_Witness ==
    /\ rl_config.min_interval = Some(2) /\ rl_config.burst_size = 2
    /\ last.n = 2 /\ op_calls = 2
    /\ now = StartTime /\ last_request_time = StartTime
    /\ \E c \in Callers : pc[c] = "sleeping" /\ deadline[c] = Some(StartTime + 2)

\* ----------------------------------------------------------------- C21
\* C21: callers sharing one rate limiter are mutually excluded over its
\* check-and-update, so no more than burst_size operations start within any
\* time window shorter than the interval: any burst_size + 1 starts span at
\* least one interval.
C21_WindowRespected ==
    (component = "rate_limit" /\ rl_config.min_interval # None) =>
        \A i, j \in DOMAIN op_starts :
            j - i >= rl_config.burst_size =>
                op_starts[j] - op_starts[i] >= rl_config.min_interval[1]

\* the same statement where one caller makes every call
C21_SequentialWindowRespected ==
    Cardinality(Callers) = 1 => C21_WindowRespected

\* burst_size = 1: two callers that slept on the exhausted burst have both
\* started their operation at the same instant
C21_ReleasedTogether ==
    /\ component = "rate_limit"
    /\ rl_config.min_interval # None /\ rl_config.burst_size = 1
    /\ Len(op_starts) = 3
    /\ op_starts[2] = op_starts[3]
    /\ \A c \in Callers : pc[c] = "in_op"

\* ------------------------------------------------------- bulkhead vocabulary
\* the component under test is a Bulkhead / AsyncBulkhead that has a semaphore
Bounded == component = "bulkhead" /\ bh_config.enabled /\ has_semaphore(bh_config)
\* the callers whose guarded body is running
InSlot == {c \in Callers : pc[c] = "in_op"}
ThreadsOnly == \A c \in Callers : c[1] = "thread"
TasksOnly == \A c \in Callers : c[1] = "task"

\* ------------------------------------------------------------------ C22
\* C22: for an enabled Bulkhead or AsyncBulkhead with max_concurrent = C >= 1,
\* in every reachable state the number of operations executing inside slot()
\* is at most C.
C22_AtMostC ==
    Bounded => Cardinality(InSlot) <= bh_config.max_concurrent[1]

\* C bodies are running and one more caller is waiting for a permit
C22_Witness ==
    /\ Bounded
    /\ bh_config.max_concurrent[1] = MaxConcurrent
    /\ Cardinality(InSlot) = MaxConcurrent
    /\ \E c \in Callers : pc[c] = "waiting"

\* ------------------------------------------------------------------ C23
\* the tasks that own a permit and whose body has not started: a permit was
\* handed to them in the queue, or their acquire() under wait_for has taken
\* one and has not returned to the caller yet
Granted == {c \in Callers : pc[c] \in {"granted", "acquired"}}

\* C23 as stated: a permit is released on every exit path: at every moment
\* the permits taken from the pool are exactly those of the operations
\* running inside slot(), and the pool holds max_concurrent free permits
\* whenever none runs.
C23_PermitsBalance ==
    Bounded =>
        /\ holds = InSlot
        /\ permits = bh_config.max_concurrent[1] - Cardinality(InSlot)
        /\ InSlot = {} => permits = bh_config.max_concurrent[1]

\* C23, amended: a permit is released on every exit path: at every moment the
\* permits taken from the pool are exactly those of the operations running
\* inside slot() and of the tasks that have been given a permit and have not
\* started their body (nor given the permit back) yet, and once every call
\* has finished (returned, raised, been rejected or cancelled) the pool holds
\* max_concurrent free permits.
C23_PermitsAccounted ==
    Bounded =>
        /\ holds = InSlot \cup Granted
        /\ permits = bh_config.max_concurrent[1] - Cardinality(holds)
        /\ (\A c \in Callers : pc[c] = "idle") =>
              permits = bh_config.max_concurrent[1]

\* the first call of a run, acquire_timeout > 0: the acquire() that wait_for
\* runs has taken a permit and slot() has not reached its yield; nothing was
\* ever queued or released
C23_AcquiredNotStarted ==
    /\ Bounded /\ TasksOnly
    /\ last.n = 0 /\ op_calls = 0 /\ Started = 1
    /\ InSlot = {} /\ waiters = <<>>
    /\ permits = bh_config.max_concurrent[1] - 1
    /\ \E c \in Callers : pc[c] = "acquired" /\ holds = {c}

\* a body returned and its permit went to the waiting task, which has not
\* run yet: no permit is free and no operation is inside slot()
C23_HandedOver ==
    /\ Bounded /\ TasksOnly
    /\ InSlot = {} /\ permits = 0
    /\ \E c \in Callers : pc[c] = "granted" /\ Queued(c) /\ holds = {c}

\* MaxCalls calls are over, one of them was rejected and the last one raised:
\* the pool is full again
C23_Witness ==
    /\ Bounded
    /\ \A c \in Callers : pc[c] = "idle"
    /\ last.n = MaxCalls /\ op_calls = MaxCalls - 1
    /\ last.error = "ValueError"
    /\ permits = bh_config.max_concurrent[1]

\* ------------------------------------------------------------------ C24
\* C24: for the synchronous Bulkhead, a call is rejected only when no permit
\* is free (at entry with acquire_timeout = 0, or when the wait has run out);
\* the rejected call does not invoke the operation and leaves the pool as it
\* was; with acquire_timeout = 0 a thread never waits, so a call arriving
\* while max_concurrent operations run is rejected and not run.
C24_NoWaiting ==
    (Bounded /\ ThreadsOnly /\ bh_config.acquire_timeout = 0) =>
        \A c \in Callers : pc[c] # "waiting"

C24_Step ==
    (Bounded /\ ThreadsOnly) =>
        /\ (Completed /\ last'.error = BulkheadRejectedError) =>
              /\ permits = 0 /\ permits' = permits /\ holds' = holds
              /\ ~last'.invoked /\ op_calls' = op_calls
              /\ InSlot' = InSlot
        /\ \A c \in Callers :
              (pc[c] = "idle" /\ pc'[c] = "in_op") => permits > 0
        /\ \A c \in Callers :
              (pc[c] = "idle" /\ pc'[c] = "waiting") =>
                  bh_config.acquire_timeout > 0 /\ permits = 0

C24_SyncRejects == []C24_NoWaiting /\ [][C24_Step]_vars

\* max_concurrent = 2, acquire_timeout = 0, three overlapping calls by
\* threads: two operations are running and the one other call was rejected
C24_Witness ==
    /\ Bounded /\ ThreadsOnly
    /\ bh_config.max_concurrent[1] = 2 /\ bh_config.acquire_timeout = 0
    /\ Cardinality(InSlot) = 2 /\ op_calls = 2
    /\ last.n = 1 /\ last.error = BulkheadRejectedError /\ ~last.invoked
    /\ Started = 3

\* ------------------------------------------------------------------ C25
\* C25: the asynchronous bulkhead acquires as the synchronous one does: with
\* acquire_timeout = 0 a task never waits for a permit (it is rejected at
\* once), and for no acquire_timeout does a task wait without a deadline.
C25_AsyncNeverWaitsUnbounded ==
    (Bounded /\ TasksOnly) =>
        \A c \in Callers :
            pc[c] = "waiting" =>
                bh_config.acquire_timeout > 0 /\ deadline[c] # None

\* what does hold: with acquire_timeout > 0 every wait of a task has a deadline
C25_AsyncBoundedWhenPositive ==
    (Bounded /\ TasksOnly /\ bh_config.acquire_timeout > 0) =>
        \A c \in Callers : pc[c] = "waiting" => deadline[c] # None

\* a task waiting without a deadline while every permit is taken
C25_WaitsWithoutBound ==
    /\ Bounded /\ TasksOnly
    /\ bh_config.acquire_timeout = 0
    /\ permits = 0
    /\ \E c \in Callers : pc[c] = "waiting" /\ deadline[c] = None

\* ------------------------------------------------------------------ C26
\* C26: a bulkhead that is disabled, or whose max_concurrent is None, 0 or
\* negative, is a pass-through for threads and for tasks: no call is rejected,
\* no caller waits, no permit is taken, and every caller that arrives enters
\* the body whatever the number of bodies already running.
PassThroughConfig ==
    \/ ~bh_config.enabled
    \/ bh_config.max_concurrent = None
    \/ IF bh_config.max_concurrent = None THEN FALSE
       ELSE bh_config.max_concurrent[1] <= 0

C26_PassThrough ==
    (component = "bulkhead" /\ PassThroughConfig) =>
        /\ last.error # BulkheadRejectedError
        /\ holds = {}
        /\ \A c \in Callers :
              /\ pc[c] # "waiting"
              /\ (pc[c] = "idle" /\ Started < MaxCalls) =>
                    ENABLED slot_passthrough(c)

\* enabled with max_concurrent 0 or negative: MaxConcurrent + 1 bodies run
\* at the same time
C26_Witness ==
    /\ component = "bulkhead" /\ bh_config.enabled
    /\ bh_config.max_concurrent # None
    /\ IF bh_config.max_concurrent = None THEN FALSE
       ELSE bh_config.max_concurrent[1] <= 0
    /\ Cardinality(InSlot) = MaxConcurrent + 1

\* ------------------------------------------------------------------ C27
\* a call of c ends in this step
Ends(c) == pc[c] # "idle" /\ pc'[c] = "idle"

\* C27 as stated: when a task is cancelled while it waits for a permit or
\* while its operation runs holding one, no permit stays held for it: when
\* CancelledError has left slot(), the free permits and the operations still
\* in flight add up to max_concurrent.
C27_Step ==
    (Bounded /\ Completed /\ last'.error = CancelledError) =>
        \A c \in Callers :
            Ends(c) =>
                /\ c \notin holds'
                /\ holds' = InSlot'
                /\ permits' + Cardinality(InSlot') = bh_config.max_concurrent[1]

C27_CancelNeverLeaks == [][C27_Step]_vars

\* when CancelledError leaves slot(): the task is out of the queue and holds
\* no permit, and the free permits, the operations in flight and the tasks
\* given a permit whose body has not started add up to max_concurrent
C27_Delivered ==
    (Bounded /\ Completed /\ last'.error = CancelledError) =>
        \A c \in Callers :
            Ends(c) =>
                /\ c \notin holds'
                /\ ~Queued(c)'
                /\ holds' = InSlot' \cup Granted'
                /\ permits' + Cardinality(InSlot') + Cardinality(Granted')
                      = bh_config.max_concurrent[1]

\* the step in which a cancelled task (or the cancelled acquire() of a
\* cancelled task) leaves the semaphore: a permit it held is free again or
\* has gone to the next waiting task; if it held none, the pool is untouched
C27_Unwound ==
    Bounded =>
        \A c \in Callers :
            (stop[c] = "cancel" /\ pc'[c] \in {"idle", "stopped"} /\ pc[c] # pc'[c]) =>
                /\ c \notin holds' /\ ~Queued(c)'
                /\ c \in holds =>
                      \/ permits' = permits + 1 /\ holds' = holds \ {c}
                      \/ /\ permits' = permits
                         /\ \E w \in Callers \ {c} :
                               /\ w \notin holds /\ holds' = (holds \ {c}) \cup {w}
                               /\ pc[w] = "waiting" /\ pc'[w] = "granted"
                /\ c \notin holds => permits' = permits /\ holds' = holds

\* a task whose cancellation is under way can take no permit and start no body
C27_NoNewPermit ==
    Bounded =>
        \A c \in Callers :
            stop[c] = "cancel" => (c \in holds' => c \in holds) /\ (pc'[c] = "in_op" => pc[c] = "in_op")

C27_GivesBack == C27_Delivered /\ C27_Unwound /\ C27_NoNewPermit

\* C27, amended: when a task is cancelled while it waits for a permit or
\* while its operation runs holding one, no permit stays held for it: a
\* permit it held is free again or has gone to the next waiting task, and
\* when CancelledError has left slot() the free permits, the operations still
\* in flight and the tasks given a permit whose body has not started add up
\* to max_concurrent.
C27_CancelGivesBack == [][C27_GivesBack]_vars

\* two permits, acquire_timeout > 0, nothing was ever queued: one task was
\* cancelled in its body and its permit is free again, while the acquire()
\* of the other has taken a permit and its body has not started
C27_AcquiredMeanwhile ==
    /\ Bounded /\ TasksOnly
    /\ bh_config.max_concurrent[1] = 2 /\ bh_config.acquire_timeout > 0
    /\ last.n = 1 /\ last.error = CancelledError /\ last.invoked
    /\ Started = 2 /\ op_calls = 1
    /\ InSlot = {} /\ permits = 1 /\ waiters = <<>>
    /\ \E c \in Callers : pc[c] = "acquired" /\ holds = {c}

\* max_concurrent = 1: a task was cancelled after the permit of a finished
\* operation had been handed to it, and the permit has gone on to the task
\* queued behind it
C27_Witness ==
    /\ Bounded /\ TasksOnly
    /\ bh_config.max_concurrent[1] = 1
    /\ last.n = 2 /\ last.error = CancelledError /\ ~last.invoked
    /\ InSlot = {} /\ permits = 0
    /\ Cardinality(Granted) = 1 /\ holds = Granted

\* ------------------------------------------------------------------ C28
\* C28: the passage of time never changes the breaker: an OPEN breaker stays
\* OPEN (is_open true, is_half_open false) however long after
\* recovery_timeout, until a call, reset() or force_open(); the step from OPEN
\* to HALF_OPEN is always the admission of a protected call.
C28_Step ==
    /\ (now' # now /\ is_open(breaker)) =>
          is_open(breaker') /\ ~is_half_open(breaker')
    /\ (is_open(breaker) /\ pc' = pc /\ last' = last
           /\ breaker' # set_closed(breaker)) => is_open(breaker')
    /\ (is_open(breaker) /\ is_half_open(breaker')) =>
          /\ should_attempt_reset(breaker, config, now)
          /\ op_calls' = op_calls + 1
          /\ \E c \in Callers : pc[c] = "idle" /\ pc'[c] = "in_op"

C28_OnlyACallHalfOpens == [][C28_Step]_vars

\* the breaker is still OPEN well after recovery_timeout has elapsed
C28_Witness ==
    /\ config.enabled /\ is_open(breaker)
    /\ breaker.total_failures > 0
    /\ now - breaker.last_failure_time > config.recovery_timeout
    /\ now = EndTime

\* ------------------------------------------------------------------ C29
\* C29: once recovery_timeout has elapsed since the failure that opened the
\* breaker, the breaker is observed HALF_OPEN (state, is_half_open()) although
\* no protected call has been made since.
C29_HalfOpenOnceElapsed ==
    (/\ config.enabled
     /\ breaker.failure_count >= config.failure_threshold
     /\ last.invoked /\ last.op_error # NoError
     /\ ~is_closed(breaker)
     /\ \A c \in Callers : pc[c] = "idle"
     /\ now > breaker.last_failure_time
     /\ should_attempt_reset(breaker, config, now)) =>
        is_half_open(breaker)

\* the failure opened the breaker, the window is over, the state is OPEN
C29_StillOpen ==
    /\ config.enabled /\ is_open(breaker) /\ ~is_half_open(breaker)
    /\ breaker.failure_count >= config.failure_threshold
    /\ last.invoked /\ last.op_error # NoError /\ last.n = 1
    /\ now > breaker.last_failure_time
    /\ should_attempt_reset(breaker, config, now)

\* ------------------------------------------------------------------ C30
\* C30: last_failure_time has its no-failure value on a fresh breaker, leaves
\* it at the first recorded failure, and reset() puts it back together with
\* the counters: reset() restores the state of a fresh breaker.
NoFailureTime == NewBreaker.last_failure_time

C30_Step ==
    /\ breaker = NewBreaker => breaker.last_failure_time = NoFailureTime
    /\ breaker'.total_failures > breaker.total_failures =>
          breaker'.last_failure_time # NoFailureTime
    /\ (\E th \in AdminThreads : reset(th)) =>
          /\ is_closed(breaker')
          /\ breaker'.failure_count = 0 /\ breaker'.success_count = 0
          /\ breaker'.last_failure_time = NoFailureTime

C30_ResetRestoresInitial == [][C30_Step]_vars

\* what does hold: reset() closes the breaker and zeroes the two counters
C30_ResetClosesAndZeroes ==
    [][(\E th \in AdminThreads : reset(th)) =>
          /\ is_closed(breaker')
          /\ breaker'.failure_count = 0 /\ breaker'.success_count = 0
          /\ breaker'.last_failure_time = breaker.last_failure_time]_vars

\* after reset() a closed breaker with zero counters still carries the time
\* of the failure
C30_ResetKeepsFailureTime ==
    /\ config.enabled /\ is_closed(breaker)
    /\ breaker.failure_count = 0 /\ breaker.success_count = 0
    /\ breaker.total_failures > 0 /\ breaker.total_successes = 0
    /\ breaker.last_failure_time # NoFailureTime

\* ------------------------------------------------------------------ C31
\* C31: only errors of the configured type count as failures: when the
\* operation raises an error that is not an instance of
\* config.expected_exception, the caller gets that error and failure_count,
\* total_failures and state stay as they were.
Unexpected(e) == e # NoError /\ ~isinstance(e, config.expected_exception)

C31_Step ==
    (config.enabled /\ Completed /\ last'.invoked /\ Unexpected(last'.op_error)) =>
        /\ last'.error = last'.op_error
        /\ breaker'.failure_count = breaker.failure_count
        /\ breaker'.total_failures = breaker.total_failures
        /\ breaker'.state = breaker.state

C31_OnlyExpectedCount == [][C31_Step]_vars

\* what does hold: every error the operation raises is recorded as a failure,
\* whatever expected_exception names
C31_EveryErrorCounts ==
    [][(config.enabled /\ Completed /\ last'.invoked /\ last'.op_error # NoError) =>
          /\ last'.error = last'.op_error
          /\ breaker'.total_failures = breaker.total_failures + 1
          /\ breaker'.last_failure_time = now]_vars

\* expected_exception = ValueError, failure_threshold 1: one TimeoutError
\* opened the breaker
C31_UnexpectedOpened ==
    /\ config.enabled /\ config.expected_exception = "ValueError"
    /\ last.n = 1 /\ last.invoked /\ last.op_error = "TimeoutError"
    /\ is_open(breaker) /\ breaker.failure_count = 1 /\ breaker.total_failures = 1

\* ------------------------------------------------------------------ C32
\* the delay calculate_backoff_delay gives for the same arguments without
\* jitter
Unjittered ==
    calculate_backoff_delay(bk.attempt + 1, bk.base_delay, bk.backoff_factor,
                            bk.max_delay, FALSE, 0)

\* C32: with jitter = True, calculate_backoff_delay returns a value between
\* base_delay and the delay without jitter, inclusive, for every draw of the
\* random source (attempt 2, base_delay 1, backoff_factor 2: within [1, 2]).
C32_JitterWithinDelay ==
    (bk.fn = "calculate_backoff_delay" /\ bk.jitter) =>
        /\ Min(bk.base_delay, Unjittered) <= bk.result[1]
        /\ bk.result[1] <= Unjittered

\* what does hold: jitter only adds, at most a quarter of the delay and
\* never beyond max_delay
C32_JitterWidens ==
    (bk.fn = "calculate_backoff_delay" /\ bk.jitter) =>
        /\ Unjittered <= bk.result[1]
        /\ bk.result[1] <= Min(Unjittered + Unjittered \div 4, bk.max_delay)
        /\ bk.result[1] - Unjittered \in JitterAmounts(Unjittered, bk.max_delay)

\* attempt 2, base_delay 1 s, backoff_factor 2, jitter: more than 2 s
C32_JitterAboveDelay ==
    /\ bk.fn = "calculate_backoff_delay" /\ bk.jitter
    /\ bk.attempt + 1 = 2 /\ bk.base_delay = 4 /\ bk.backoff_factor = 2
    /\ Unjittered = 8
    /\ bk.result[1] > 8

\* ------------------------------------------------------------------ C33
\* C33: reset() and force_open() can be called from another thread at any
\* time and complete without waiting for an operation that is executing
\* inside call(): in every state, every thread other than the one inside a
\* protected call can take the step.
C33_AdminNeverWaits ==
    \A th \in AdminThreads :
        th # lock_owner => ENABLED reset(th) /\ ENABLED force_open(th)

\* what does hold: while no protected call is in flight the administrative
\* operations go through
C33_AdminFreeWhenIdle ==
    (\A c \in Callers : pc[c] = "idle") =>
        \A th \in AdminThreads : ENABLED reset(th) /\ ENABLED force_open(th)

\* a thread's operation is running inside call() with the lock held, and the
\* event-loop thread cannot enter reset() or force_open()
C33_ResetMustWait ==
    /\ config.enabled
    /\ \E c \in Callers : c[1] = "thread" /\ pc[c] = "in_op" /\ lock_owner = c
    /\ LoopThread \in AdminThreads
    /\ ~can_acquire(LoopThread)
    /\ ~ENABLED reset(LoopThread)

\* ------------------------------------------------------------------ C34
\* C34: for tasks sharing the breaker, the decision sequence of one acall is
\* atomic: while a task's operation is in flight (between its admission and
\* the recording of its outcome) no other call is admitted and no outcome or
\* transition is committed, so the breaker is as the call was admitted when
\* its outcome is applied.
InFlightThrough(c) == pc[c] = "in_op" /\ pc'[c] = "in_op"

C34_Step ==
    config.enabled =>
        \A c \in Callers :
            (c[1] = "task" /\ InFlightThrough(c)) =>
                breaker' = breaker /\ op_calls' = op_calls

C34_AcallAtomic == [][C34_Step]_vars

\* what does hold: nothing is committed while the operation of a thread's
\* call() is in flight
C34_CallAtomic ==
    [][config.enabled =>
          \A c \in Callers :
              (c[1] = "thread" /\ InFlightThrough(c)) =>
                  breaker' = breaker /\ op_calls' = op_calls]_vars

\* two tasks are inside acall at once; between their admissions a failure
\* opened the breaker and the window elapsed
C34_Interleaved ==
    /\ config.enabled
    /\ \A c \in Callers : c[1] = "task" <=> pc[c] = "in_op"
    /\ lock_owner = LoopThread /\ lock_count = 2
    /\ is_half_open(breaker)
    /\ breaker.total_requests = 3 /\ breaker.total_failures = 1
    /\ breaker.total_rejected = 0 /\ breaker.total_successes = 0

\* ------------------------------------------------------------------ C35
\* C35: success_count is 0 after every transition into CLOSED or HALF_OPEN
\* and grows only by one, by a success recorded while HALF_OPEN; so a CLOSED
\* breaker has success_count = 0 and success_count stays below
\* success_threshold, after any sequence of calls, reset() and force_open().
C35_Inv ==
    /\ is_closed(breaker) => breaker.success_count = 0
    /\ breaker.success_count >= 0
    /\ breaker.success_count < config.success_threshold

C35_Step ==
    /\ (breaker'.state # breaker.state
          /\ breaker'.state \in {CLOSED, HALF_OPEN}) =>
              breaker'.success_count = 0
    /\ breaker'.success_count > breaker.success_count =>
          /\ is_half_open(breaker) /\ is_half_open(breaker')
          /\ breaker'.success_count = breaker.success_count + 1
          /\ breaker'.total_successes = breaker.total_successes + 1
          /\ Completed /\ last'.invoked /\ last'.error = NoError

C35_SuccessCount == []C35_Inv /\ [][C35_Step]_vars

\* a probing phase that had counted a success was cut short, and the next
\* one starts from 0
C35_Witness ==
    /\ config.enabled /\ config.success_threshold = 2
    /\ is_half_open(breaker) /\ breaker.success_count = 0
    /\ breaker.total_successes = 1
    /\ last.invoked /\ last.error = NoError /\ last.at_state = HALF_OPEN
    /\ \E c \in Callers : pc[c] = "in_op"

\* ------------------------------------------------------------------ C36
\* C36: for an enabled breaker with failure_threshold >= 1, in every state
\* reachable by any interleaving of call, acall, reset() and force_open(), a
\* CLOSED breaker has failure_count < failure_threshold.
C36_ClosedBelowThreshold ==
    (config.enabled /\ config.failure_threshold >= 1 /\ is_closed(breaker)) =>
        breaker.failure_count < config.failure_threshold

\* failure_threshold failures opened the breaker, reset() closed it, and one
\* more failure was counted from 0
C36_Witness ==
    /\ config.enabled /\ config.failure_threshold = 2
    /\ is_closed(breaker)
    /\ breaker.failure_count = 1
    /\ breaker.total_failures = 3

\* ------------------------------------------------------------------ C37
\* C37: the cumulative counters of an enabled breaker add up: with no call in
\* flight total_requests = total_successes + total_failures + total_rejected;
\* a call adds one to total_requests and, when it finishes, one to exactly one
\* of the other three; reset() and force_open() change none of the four, and
\* none ever decreases.
Settled(b) == b.total_successes + b.total_failures + b.total_rejected

Totals(b) ==
    <<b.total_requests, b.total_successes, b.total_failures, b.total_rejected>>

C37_Inv ==
    config.enabled =>
        breaker.total_requests = Settled(breaker) + Cardinality(InSlot)

C37_Step ==
    config.enabled =>
        /\ \A i \in 1..4 : Totals(breaker')[i] - Totals(breaker)[i] \in {0, 1}
        /\ Completed <=> Settled(breaker') = Settled(breaker) + 1
        /\ ~Completed => Settled(breaker') = Settled(breaker)
        /\ Rejected <=> breaker'.total_rejected = breaker.total_rejected + 1
        /\ (pc' = pc /\ last' = last) => Totals(breaker') = Totals(breaker)

C37_CountersConsistent == []C37_Inv /\ [][C37_Step]_vars

\* what does hold: a step that does not end a call by a BaseException keeps
\* the counters in step
C37_UnlessAborted == [][~Aborted => C37_Step]_vars

\* a task cancelled inside acall: the call is over, no call is in flight, and
\* total_requests counts a request that none of the other three counts
C37_AbortUncounted ==
    /\ config.enabled
    /\ \A c \in Callers : pc[c] = "idle"
    /\ last.invoked /\ last.error = CancelledError
    /\ Totals(breaker) = <<1, 0, 0, 0>>

\* a success, a failure and a rejection, then reset(): nothing in flight, the
\* three outcomes are still counted
C37_Witness ==
    /\ config.enabled
    /\ \A c \in Callers : pc[c] = "idle"
    /\ Totals(breaker) = <<3, 1, 1, 1>>
    /\ is_closed(breaker) /\ breaker.failure_count = 0
    /\ last.error = CircuitBreakerOpenError

\* ------------------------------------------------------------------ C38
\* C38: force_open() changes only state, to OPEN; last_failure_time,
\* failure_count, success_count and the cumulative counters stay.  So the
\* rejection window still runs from the last recorded failure: when
\* now - last_failure_time >= recovery_timeout (always so on a breaker that
\* never recorded a failure) the next call after force_open() is admitted as
\* the HALF_OPEN probe and invokes the operation.
ForcedOpen ==
    ~is_open(breaker) /\ is_open(breaker') /\ pc' = pc /\ last' = last

CallEntered == breaker'.total_requests = breaker.total_requests + 1

C38_Step ==
    /\ ForcedOpen => breaker' = [breaker EXCEPT !.state = OPEN]
    /\ (config.enabled /\ is_open(breaker) /\ CallEntered
           /\ should_attempt_reset(breaker, config, now)) =>
          /\ is_half_open(breaker')
          /\ op_calls' = op_calls + 1
          /\ breaker'.total_rejected = breaker.total_rejected
          /\ ~Completed

C38_Inv ==
    (config.enabled /\ breaker.total_failures = 0 /\ is_open(breaker)) =>
        /\ should_attempt_reset(breaker, config, now)
        /\ \A c \in Callers :
              (pc[c] = "idle" /\ Started < MaxCalls /\ can_acquire(ThreadOf(c))) =>
                  ENABLED call_admit(c) /\ ~ENABLED call_reject(c, "idle")

C38_ForceOpenKeepsWindow == []C38_Inv /\ [][C38_Step]_vars

\* force_open() on a breaker that never recorded a failure, with
\* recovery_timeout > 0: the first call is the probe and its operation runs
C38_Witness ==
    /\ config.enabled /\ config.recovery_timeout > 0
    /\ breaker.total_failures = 0 /\ breaker.last_failure_time = NoFailureTime
    /\ is_half_open(breaker)
    /\ breaker.total_requests = 1 /\ breaker.total_rejected = 0
    /\ op_calls = 1 /\ Cardinality(InSlot) = 1

\* ------------------------------------------------------------------ C39
\* C39: one sequential caller of patterns.decorators.rate_limit with
\* requests_per_second set and burst_size B >= 1: after every call the burst
\* counter is between 1 and B, and among any B + 1 consecutive invocations of
\* the operation two adjacent ones are at least 1/requests_per_second apart
\* (so no shorter window holds more than B invocations).
AdjacentGap(k) == op_starts[k + 1] - op_starts[k]

C39_BurstBounded ==
    (component = "rate_limit" /\ Cardinality(Callers) = 1
        /\ rl_config.min_interval # None) =>
        /\ op_starts # <<>> =>
              request_count >= 1 /\ request_count <= rl_config.burst_size
        /\ \A i \in DOMAIN op_starts :
              i + rl_config.burst_size \in DOMAIN op_starts =>
                  \E k \in i..(i + rl_config.burst_size - 1) :
                      AdjacentGap(k) >= rl_config.min_interval[1]

\* burst_size 2: two invocations inside one interval, the third after the
\* wait that ends the interval
C39_Witness ==
    /\ component = "rate_limit" /\ Cardinality(Callers) = 1
    /\ rl_config.min_interval # None /\ rl_config.burst_size = 2
    /\ Len(op_starts) = 3
    /\ AdjacentGap(1) < rl_config.min_interval[1]
    /\ AdjacentGap(2) = rl_config.min_interval[1]
    /\ request_count = 1

\* ------------------------------------------------------------------ C40
\* C40: for one sequential caller and the same requests_per_second,
\* http_service.decorators.rate_limit and patterns.decorators.rate_limit with
\* burst_size = 1, given the same calls at the same times, make every call
\* wait the same time and invoke the operation at the same times.
C40_LimitersAgree ==
    component = "rate_limit_pair" =>
        /\ simple.op_starts = op_starts
        /\ \A c \in Callers :
              /\ pc[c] = "sleeping" <=> simple.deadline # None
              /\ pc[c] = "sleeping" => simple.deadline = deadline[c]
        /\ op_starts # <<>> => simple.last_request_time = last_request_time

\* a call that arrived one time unit after the previous start, with an
\* interval of two: both limiters sleep for the one unit that is left
C40_Witness ==
    /\ component = "rate_limit_pair"
    /\ rl_config.min_interval[1] = 2
    /\ Len(op_starts) = 1 /\ simple.op_starts = op_starts
    /\ now = op_starts[1] + 1
    /\ \E c \in Callers :
          /\ pc[c] = "sleeping"
          /\ deadline[c] = Some(now + 1)
          /\ simple.deadline = Some(now + 1)

====
